---------------------------- MODULE Spec2Model ----------------------------
(***************************************************************************)
(* A model of the lab-report PDF parser of MyLabVault                      *)
(* (src/app/api/services/pdf_parser.py, class PDFParser).                  *)
(*                                                                         *)
(* Text is modelled at character level: a Python str is a sequence of      *)
(* one-character strings, so that substring tests, case folding, trimming, *)
(* splitting and the regular expressions of the source are computed, not   *)
(* assumed.                                                                *)
(***************************************************************************)
EXTENDS Integers, Sequences, FiniteSets, TLC

(***************************************************************************)
(* Python str primitives                                                   *)
(***************************************************************************)

\* the absent value (Python None) where a str is expected: a sequence that is
\* no text, so that it can be compared with any text
None == <<"None">>

\* bool(s) for an optional str: neither None nor ''
Truthy(s) == s # None /\ s # <<>>

\* str.lower() of one character, for the letters it changes
LowerCase ==
  [A |-> "a", B |-> "b", C |-> "c", D |-> "d", E |-> "e", F |-> "f", G |-> "g",
   H |-> "h", I |-> "i", J |-> "j", K |-> "k", L |-> "l", M |-> "m", N |-> "n",
   O |-> "o", P |-> "p", Q |-> "q", R |-> "r", S |-> "s", T |-> "t", U |-> "u",
   V |-> "v", W |-> "w", X |-> "x", Y |-> "y", Z |-> "z"]

\* str.upper() of one character, for the letters it changes
UpperCase ==
  [a |-> "A", b |-> "B", c |-> "C", d |-> "D", e |-> "E", f |-> "F", g |-> "G",
   h |-> "H", i |-> "I", j |-> "J", k |-> "K", l |-> "L", m |-> "M", n |-> "N",
   o |-> "O", p |-> "P", q |-> "Q", r |-> "R", s |-> "S", t |-> "T", u |-> "U",
   v |-> "V", w |-> "W", x |-> "X", y |-> "Y", z |-> "Z"]

UpperSet == DOMAIN LowerCase

LowerSet == DOMAIN UpperCase

Letter == DOMAIN LowerCase \cup DOMAIN UpperCase

Digit == {"0","1","2","3","4","5","6","7","8","9"}

\* \w of the re module (ASCII part)
WordCh == Letter \cup Digit \cup {"_"}

\* str.strip() / \s
WS == {" ", "\t", "\n", "\r"}

ToLower(c) == (LowerCase @@ (c :> c))[c]

ToUpper(c) == (UpperCase @@ (c :> c))[c]

\* str.lower()
Lower(s) == [i \in 1..Len(s) |-> ToLower(s[i])]

\* str.upper()
Upper(s) == [i \in 1..Len(s) |-> ToUpper(s[i])]

\* str.strip()
Strip(s) ==
  LET keep == {i \in 1..Len(s) : s[i] \notin WS}
  IN IF keep = {} THEN <<>>
     ELSE SubSeq(s, CHOOSE i \in keep : \A j \in keep : i <= j,
                    CHOOSE i \in keep : \A j \in keep : j <= i)

\* sub in s
Contains(s, sub) ==
  \E i \in 0..(Len(s) - Len(sub)) : SubSeq(s, i + 1, i + Len(sub)) = sub

\* s.startswith(pre)
StartsWith(s, pre) == Len(pre) <= Len(s) /\ SubSeq(s, 1, Len(pre)) = pre

RECURSIVE Flatten(_)
\* concatenation of a sequence of sequences
Flatten(ss) == IF ss = <<>> THEN <<>> ELSE Head(ss) \o Flatten(Tail(ss))

RECURSIVE Split(_, _)
\* s.split(sep) for a one-character separator
Split(s, sep) ==
  LET at == {i \in 1..Len(s) : s[i] = sep}
  IN IF at = {} THEN <<s>>
     ELSE LET i == CHOOSE k \in at : \A j \in at : k <= j
          IN <<SubSeq(s, 1, i - 1)>> \o Split(SubSeq(s, i + 1, Len(s)), sep)

RECURSIVE SplitWS(_)
\* s.split() : the maximal runs of non-whitespace characters
SplitWS(s) ==
  LET t == Strip(s)
      ws == {i \in 1..Len(t) : t[i] \in WS}
  IN IF t = <<>> THEN <<>>
     ELSE IF ws = {} THEN <<t>>
     ELSE LET i == CHOOSE k \in ws : \A j \in ws : k <= j
          IN <<SubSeq(t, 1, i - 1)>> \o SplitWS(SubSeq(t, i + 1, Len(t)))

RECURSIVE Join(_, _)
\* sep.join(parts)
Join(parts, sep) ==
  IF parts = <<>> THEN <<>>
  ELSE IF Len(parts) = 1 THEN parts[1]
  ELSE parts[1] \o sep \o Join(Tail(parts), sep)

\* ' '.join(s.split())
JoinWords(s) == Join(SplitWS(s), <<" ">>)

(***************************************************************************)
(* The re module: a backtracking matcher over pattern trees.  A match      *)
(* attempt yields every way the pattern can match at a position, in the    *)
(* order in which re tries them (greedy: longest first, lazy: shortest     *)
(* first, alternatives left to right); the first one is the match re       *)
(* returns.                                                                *)
(***************************************************************************)

\* one character of the set cs
Ch(cs) == [t |-> "ch", neg |-> FALSE, set |-> cs]

\* one character not in the set cs: [^...]
NotCh(cs) == [t |-> "ch", neg |-> TRUE, set |-> cs]

\* the concatenation of the patterns xs
Cat(xs) == [t |-> "seq", xs |-> xs]

\* the literal text lit
Lit(lit) == [t |-> "lit", lit |-> lit]

\* x|y|...
Alt(xs) == [t |-> "alt", xs |-> xs]

\* x{lo,hi}, greedy; hi = -1 is unbounded
Rep(x, lo, hi) ==
  [t |-> IF x.t = "ch" THEN "run" ELSE "rep", x |-> x, lo |-> lo, hi |-> hi, lazy |-> FALSE]

\* x{lo,hi}?, lazy
RepLazy(x, lo, hi) ==
  [t |-> IF x.t = "ch" THEN "run" ELSE "rep", x |-> x, lo |-> lo, hi |-> hi, lazy |-> TRUE]

Star(x) == Rep(x, 0, -1)

Plus(x) == Rep(x, 1, -1)

Opt(x) == Rep(x, 0, 1)

\* capture group number g
Grp(g, x) == [t |-> "grp", g |-> g, x |-> x]

\* ^
Bol == [t |-> "bol"]

\* $
Eol == [t |-> "eol"]

\* no group has taken part in the match
NoCaps == [g \in 1..5 |-> <<0, 0>>]

\* the character c is in the class n (under re.IGNORECASE: in either case)
InClass(n, c, ic) ==
  n.neg # (\E d \in (IF ic THEN {c, ToLower(c), ToUpper(c)} ELSE {c}) : d \in n.set)

\* the text lit is at position i of s
LitAt(lit, s, i, ic) ==
  /\ i + Len(lit) - 1 <= Len(s)
  /\ \A k \in 1..Len(lit) :
       \/ s[i + k - 1] = lit[k]
       \/ ic /\ Cardinality({ToLower(c) : c \in {s[i + k - 1], lit[k]}}) = 1

\* the position after the longest run of TRUE of the flags hit from
\* position i on (hit[j]: the character at j is in the class)
RunEnd(hit, i, last) ==
  CHOOSE j \in i..(last + 1) :
    /\ j = last + 1 \/ ~hit[j]
    /\ \A k \in i..(j - 1) : hit[k]

\* the position run, or i + hi when that is nearer (hi = -1: no limit)
Clip(run, i, hi) == IF hi # -1 /\ run - i > hi THEN i + hi ELSE run

\* the matches of a repetition n of one character class when the run of
\* the class ends before position stop: the longest first when greedy, the
\* shortest first when lazy
MRepRun(n, i, stop, caps) ==
  IF stop - i < n.lo THEN <<>>
  ELSE [j \in 1..(stop - i - n.lo + 1) |->
          [e |-> IF n.lazy THEN i + n.lo + j - 1 ELSE stop - j + 1, c |-> caps]]

\* the repetition n of one character class at position i
MRepCh(n, s, i, caps, ic) ==
  MRepRun(n, i,
          Clip(RunEnd([j \in i..Len(s) |-> InClass(n.x, s[j], ic)], i, Len(s)), i, n.hi),
          caps)

\* one character of a class as a repetition of the class, exactly once
AsRun(n) ==
  IF n.t = "ch" THEN [t |-> "run", x |-> n, lo |-> 1, hi |-> 1, lazy |-> FALSE] ELSE n

\* the single match of nothing at position i when ok holds
MEmpty(ok, i, caps) == IF ok THEN <<[e |-> i, c |-> caps]>> ELSE <<>>

\* the matches rs of a group's body, with the group's span recorded
MGrp(rs, g, i) ==
  [k \in 1..Len(rs) |-> [e |-> rs[k].e, c |-> [rs[k].c EXCEPT ![g] = <<i, rs[k].e>>]]]

RECURSIVE Concat(_, _, _)
\* f[lo] \o ... \o f[hi] for a sequence f of sequences
Concat(f, lo, hi) ==
  CASE lo > hi -> <<>>
    [] lo = hi -> f[lo]
    [] OTHER -> Concat(f, lo, (lo + hi) \div 2) \o Concat(f, (lo + hi) \div 2 + 1, hi)

RECURSIVE M(_, _, _, _, _)
RECURSIVE MSeq(_, _, _, _, _, _)
RECURSIVE MRep(_, _, _, _, _, _, _)

\* the matches of pattern n in s starting at position i, in re's order;
\* each is [e |-> the position after the match, c |-> the groups]
M(n, s, i, caps, ic) ==
  CASE n.t \in {"ch", "run"} -> MRepCh(AsRun(n), s, i, caps, ic)
    [] n.t = "lit" -> MEmpty(LitAt(n.lit, s, i, ic), i + Len(n.lit), caps)
    [] n.t = "seq" -> MSeq(n.xs, 1, Len(n.xs), <<[e |-> i, c |-> caps]>>, s, ic)
    [] n.t = "alt" ->
         Concat([k \in 1..Len(n.xs) |-> M(n.xs[k], s, i, caps, ic)], 1, Len(n.xs))
    [] n.t = "rep" /\ n.hi = 0 -> MEmpty(n.lo = 0, i, caps)
    [] n.t = "rep" -> MRep(M(n.x, s, i, caps, ic), n, 1, s, i, caps, ic)
    [] n.t = "grp" -> MGrp(M(n.x, s, i, caps, ic), n.g, i)
    [] n.t = "bol" -> MEmpty(i = 1, i, caps)
    [] n.t = "eol" -> MEmpty(i = Len(s) + 1 \/ (i = Len(s) /\ s[i] = "\n"), i, caps)

\* the concatenation xs[lo..hi] after each of the matches rs of what comes
\* before it, in their order
MSeq(xs, lo, hi, rs, s, ic) ==
  CASE rs = <<>> -> rs
    [] lo > hi -> rs
    [] lo = hi /\ Len(rs) = 1 -> M(xs[lo], s, rs[1].e, rs[1].c, ic)
    [] lo = hi ->
         Concat([j \in 1..Len(rs) |-> M(xs[lo], s, rs[j].e, rs[j].c, ic)], 1, Len(rs))
    [] OTHER ->
         MSeq(xs, (lo + hi) \div 2 + 1, hi, MSeq(xs, lo, (lo + hi) \div 2, rs, s, ic), s, ic)

\* the repetition n at position i when it has matched count - 1 times and
\* the matches of its body at i are rs: after each of them that is not
\* empty another round (when the count allows one), or stop here; a greedy
\* repetition tries the rounds first, a lazy one stops first
MRep(rs, n, count, s, i, caps, ic) ==
  CASE rs = <<>> -> MEmpty(count > n.lo, i, caps)
    [] n.lazy ->
         MEmpty(count > n.lo, i, caps)
         \o Concat([j \in 1..Len(rs) |->
                      CASE rs[j].e = i -> <<>>
                        [] count = n.hi -> <<rs[j]>>
                        [] OTHER -> MRep(M(n.x, s, rs[j].e, rs[j].c, ic), n, count + 1,
                                         s, rs[j].e, rs[j].c, ic)],
                   1, Len(rs))
    [] Len(rs) = 1 /\ rs[1].e > i /\ count # n.hi ->
         MRep(M(n.x, s, rs[1].e, rs[1].c, ic), n, count + 1, s, rs[1].e, rs[1].c, ic)
         \o MEmpty(count > n.lo, i, caps)
    [] OTHER ->
         Concat([j \in 1..Len(rs) |->
                   CASE rs[j].e = i -> <<>>
                     [] count = n.hi -> <<rs[j]>>
                     [] OTHER -> MRep(M(n.x, s, rs[j].e, rs[j].c, ic), n, count + 1,
                                      s, rs[j].e, rs[j].c, ic)],
                1, Len(rs))
         \o MEmpty(count > n.lo, i, caps)

\* the result of a failed match (a match object is [ok, b, e, c]: whether it
\* matched, where it starts, the position after its end, its groups)
NoMatch == [ok |-> FALSE, b |-> 0, e |-> 0, c |-> NoCaps]

\* match.group(g) (None when the group took no part)
Group(s, m, g) ==
  IF m.c[g] = <<0, 0>> THEN None ELSE SubSeq(s, m.c[g][1], m.c[g][2] - 1)

\* the match object of the first of the matches rs found at position b
FirstOf(rs, b) ==
  IF rs = <<>> THEN NoMatch ELSE [ok |-> TRUE, b |-> b, e |-> rs[1].e, c |-> rs[1].c]

\* the least element of a non-empty set of integers
Min(S) == CHOOSE i \in S : \A j \in S : i <= j

\* the match object of the leftmost of the positions hits at which there is
\* a match (at[i]: the matches at position i)
LeftmostOf(hits, at) == IF hits = {} THEN NoMatch ELSE FirstOf(at[Min(hits)], Min(hits))

Leftmost(at) == LeftmostOf({i \in DOMAIN at : at[i] # <<>>}, at)

\* re.match(p, s): the first match anchored at the start
ReMatch(p, s, ic) == FirstOf(M(p, s, 1, NoCaps, ic), 1)

\* pattern.search(s, pos): the first match at the leftmost start at or after
\* the 0-based index pos
ReSearchFrom(p, s, pos, ic) ==
  Leftmost([i \in (pos + 1)..(Len(s) + 1) |-> M(p, s, i, NoCaps, ic)])

\* re.search(p, s)
ReSearch(p, s, ic) == ReSearchFrom(p, s, 0, ic)

\* the text matched
Matched(s, m) == SubSeq(s, m.b, m.e - 1)

RECURSIVE ReSubN(_, _, _, _, _, _)
\* re.sub(p, repl, s, count) from the 0-based index pos on, m being the next
\* match and left the count that remains after it
ReSubAfter(m, p, repl, s, pos, ic, left) ==
  IF ~m.ok THEN SubSeq(s, pos + 1, Len(s))
  ELSE SubSeq(s, pos + 1, m.b - 1) \o repl
       \o (IF m.e > m.b THEN ReSubN(p, repl, s, m.e - 1, ic, left)
           ELSE IF m.b > Len(s) THEN <<>>
           ELSE <<s[m.b]>> \o ReSubN(p, repl, s, m.b, ic, left))

\* re.sub(p, repl, s, count) from the 0-based index pos on: the first count
\* non-overlapping matches replaced (count = -1: all of them)
ReSubN(p, repl, s, pos, ic, count) ==
  IF count = 0 THEN SubSeq(s, pos + 1, Len(s))
  ELSE ReSubAfter(ReSearchFrom(p, s, pos, ic), p, repl, s, pos, ic,
                  IF count = -1 THEN -1 ELSE count - 1)

\* re.sub(p, '', s): every non-overlapping match removed, left to right
ReSub(p, s, ic) == ReSubN(p, <<>>, s, 0, ic, -1)

(***************************************************************************)
(* float(): a Python float is [k, neg, m, e]: kind "fin" is the decimal    *)
(* (-1)^neg * m * 10^(-e) in lowest terms (m not divisible by 10), kinds   *)
(* "inf" and "nan" are the special values, kind "none" is Python None      *)
(* where a float is expected.                                              *)
(***************************************************************************)

NoneNum == [k |-> "none", neg |-> FALSE, m |-> 0, e |-> 0]

DigitSeq == <<"0","1","2","3","4","5","6","7","8","9">>

RECURSIVE DigitsVal(_, _)
\* the value of the digits of ds (underscores skipped) after the value acc
DigitsVal(ds, acc) ==
  IF ds = <<>> THEN acc
  ELSE IF Head(ds) = "_" THEN DigitsVal(Tail(ds), acc)
  ELSE DigitsVal(Tail(ds),
         10 * acc + (CHOOSE d \in 0..9 : DigitSeq[d + 1] = Head(ds)))

\* the number of digits of ds
DigitCount(ds) == Cardinality({i \in 1..Len(ds) : ds[i] \in Digit})

RECURSIVE LowestTerms(_, _, _)
\* m * 10^(-e) with the factors of 10 removed from m
LowestTerms(neg, m, e) ==
  IF m = 0 THEN [k |-> "fin", neg |-> FALSE, m |-> 0, e |-> 0]
  ELSE IF m % 10 = 0 THEN LowestTerms(neg, m \div 10, e - 1)
  ELSE [k |-> "fin", neg |-> neg, m |-> m, e |-> e]

\* the text float() accepts: optional sign, then digits with an optional
\* point and exponent, or inf / infinity / nan, surrounded by whitespace
\* ^\s*([+-])?(?:(\d+(?:_\d+)*)?(?:\.(\d+(?:_\d+)*)?)?(?:[eE]([+-]?\d+(?:_\d+)*))?|(inf|infinity|nan))\s*$
FloatRe ==
  Cat(<<Bol, Star(Ch(WS)), Opt(Grp(1, Ch({"+","-"}))), Alt(<<Cat(<<Opt(Grp(2, Cat(<<Plus(Ch(Digit)), Star(Cat(<<Ch({"_"}), Plus(Ch(Digit))>>))>>))), Opt(Cat(<<Ch({"."}), Opt(Grp(3, Cat(<<Plus(Ch(Digit)), Star(Cat(<<Ch({"_"}), Plus(Ch(Digit))>>))>>)))>>)), Opt(Cat(<<Ch({"e","E"}), Grp(4, Cat(<<Opt(Ch({"+","-"})), Plus(Ch(Digit)), Star(Cat(<<Ch({"_"}), Plus(Ch(Digit))>>))>>))>>))>>), Grp(5, Alt(<<Lit(<<"i","n","f">>), Lit(<<"i","n","f","i","n","i","t","y">>), Lit(<<"n","a","n">>)>>))>>), Star(Ch(WS)), Eol>>)

\* an optional group's text, '' when it took no part
GroupOr(s, m, g) == IF m.c[g] = <<0, 0>> THEN <<>> ELSE Group(s, m, g)

\* the float of a match m of FloatRe on s
FloatOfMatch(s, m) ==
  LET neg == GroupOr(s, m, 1) = <<"-">>
      ip == GroupOr(s, m, 2)
      fp == GroupOr(s, m, 3)
      ex == GroupOr(s, m, 4)
      sp == Lower(GroupOr(s, m, 5))
      exneg == ex # <<>> /\ Head(ex) = "-"
      exval == DigitsVal(SelectSeq(ex, LAMBDA c : c \in Digit), 0)
  IN IF sp # <<>>
     THEN [k |-> IF sp = <<"n","a","n">> THEN "nan" ELSE "inf",
           neg |-> neg, m |-> 0, e |-> 0]
     ELSE LowestTerms(neg, DigitsVal(ip \o fp, 0),
                      DigitCount(fp) - (IF exneg THEN 0 - exval ELSE exval))

\* a match m of FloatRe on s that float() accepts: a number has a digit
\* before or after the point
FloatAccepts(s, m) ==
  m.ok /\ (m.c[5] # <<0, 0>> \/ m.c[2] # <<0, 0>> \/ m.c[3] # <<0, 0>>)

\* float(s) where a ValueError is caught and gives None:
\*   try: float(s)  except ValueError: None
TryFloatOf(m, s) == IF FloatAccepts(s, m) THEN FloatOfMatch(s, m) ELSE NoneNum

TryFloat(s) == TryFloatOf(ReMatch(FloatRe, s, TRUE), s)

(***************************************************************************)
(* Value Normalizer                                                        *)
(***************************************************************************)

\* PDFParser.parse_numeric_result
parse_numeric_result(result) ==
  IF ~Truthy(result) THEN NoneNum
  ELSE TryFloat(ReSub(Ch({"<", ">"}), result, FALSE))

\* a reference range dict {low, high, text}
RefRange(low, high, text) == [low |-> low, high |-> high, text |-> text]

\* the "A-B" branch of parse_reference_range for the stripped text
RangeOfParts(parts, text) ==
  IF Len(parts) = 2
        /\ TryFloat(Strip(parts[1])) # NoneNum /\ TryFloat(Strip(parts[2])) # NoneNum
  THEN RefRange(TryFloat(Strip(parts[1])), TryFloat(Strip(parts[2])), text)
  ELSE RefRange(NoneNum, NoneNum, text)

\* RangeOfBound with the two one-sided shapes exchanged: "<B" read as a lower
\* bound and ">A" as an upper bound
RangeOfBoundSwapped(value, isUpper, text) ==
  IF value = NoneNum THEN RefRange(NoneNum, NoneNum, text)
  ELSE IF isUpper THEN RefRange(value, NoneNum, text)
  ELSE RefRange(NoneNum, value, text)

\* the "<B" and ">A" branches of parse_reference_range
RangeOfBound(value, isUpper, text) ==
  IF value = NoneNum THEN RefRange(NoneNum, NoneNum, text)
  ELSE IF isUpper THEN RefRange(NoneNum, value, text)
  ELSE RefRange(value, NoneNum, text)

\* parse_reference_range after text = text.strip()
RangeOfStripped(text) ==
  IF Contains(text, <<"-">>) /\ ~StartsWith(text, <<"<">>) /\ ~StartsWith(text, <<">">>)
  THEN RangeOfParts(Split(text, "-"), text)
  ELSE IF StartsWith(text, <<"<">>)
  THEN RangeOfBound(TryFloat(Strip(Tail(text))), TRUE, text)
  ELSE IF StartsWith(text, <<">">>)
  THEN RangeOfBound(TryFloat(Strip(Tail(text))), FALSE, text)
  ELSE RefRange(NoneNum, NoneNum, text)

\* PDFParser.parse_reference_range
parse_reference_range(text) ==
  IF ~Truthy(text) THEN RefRange(NoneNum, NoneNum, <<>>)
  ELSE RangeOfStripped(Strip(text))

\* qualitative_patterns of is_qualitative_result
qualitative_patterns ==
  <<
    <<"N","E","G","A","T","I","V","E">>,   \* NEGATIVE
    <<"P","O","S","I","T","I","V","E">>,   \* POSITIVE
    <<"N","O","N"," ","R","E","A","C","T","I","V","E">>,   \* NON REACTIVE
    <<"R","E","A","C","T","I","V","E">>,   \* REACTIVE
    <<"I","N","D","E","T","E","R","M","I","N","A","T","E">>,   \* INDETERMINATE
    <<"N","O","T"," ","D","E","T","E","C","T","E","D">>,   \* NOT DETECTED
    <<"D","E","T","E","C","T","E","D">>,   \* DETECTED
    <<"B","O","R","D","E","R","L","I","N","E">>,   \* BORDERLINE
    <<"A","B","N","O","R","M","A","L">>,   \* ABNORMAL
    <<"N","O","R","M","A","L">>,   \* NORMAL
    <<"S","A","T","I","S","F","A","C","T","O","R","Y">>,   \* SATISFACTORY
    <<"U","N","S","A","T","I","S","F","A","C","T","O","R","Y">>,   \* UNSATISFACTORY
    <<"P","R","E","S","E","N","T">>,   \* PRESENT
    <<"A","B","S","E","N","T">>,   \* ABSENT
    <<"H","I","G","H">>,   \* HIGH
    <<"L","O","W">>,   \* LOW
    <<"C","R","I","T","I","C","A","L">>,   \* CRITICAL
    <<"T","O","X","I","C">>,   \* TOXIC
    <<"T","H","E","R","A","P","E","U","T","I","C">>   \* THERAPEUTIC
  >>

\* some element of the list pats occurs in s
AnyIn(pats, s) == \E i \in 1..Len(pats) : Contains(s, pats[i])

\* PDFParser.is_qualitative_result
is_qualitative_result(result) ==
  IF ~Truthy(result) THEN FALSE
  ELSE AnyIn(qualitative_patterns, Upper(Strip(result)))

negative_variants ==
  <<
    <<"N","E","G","A","T","I","V","E">>,   \* NEGATIVE
    <<"N","O","N"," ","R","E","A","C","T","I","V","E">>,   \* NON REACTIVE
    <<"N","O","T"," ","D","E","T","E","C","T","E","D">>,   \* NOT DETECTED
    <<"A","B","S","E","N","T">>   \* ABSENT
  >>

positive_variants ==
  <<
    <<"P","O","S","I","T","I","V","E">>,   \* POSITIVE
    <<"R","E","A","C","T","I","V","E">>,   \* REACTIVE
    <<"D","E","T","E","C","T","E","D">>,   \* DETECTED
    <<"P","R","E","S","E","N","T">>   \* PRESENT
  >>

indeterminate_variants ==
  <<
    <<"I","N","D","E","T","E","R","M","I","N","A","T","E">>,   \* INDETERMINATE
    <<"B","O","R","D","E","R","L","I","N","E">>,   \* BORDERLINE
    <<"I","N","C","O","N","C","L","U","S","I","V","E">>   \* INCONCLUSIVE
  >>

\* standardize_qualitative_result with the positive variants tried first
StandardizePositiveFirst(result) ==
  IF ~Truthy(result) THEN result
  ELSE IF AnyIn(positive_variants, Upper(Strip(result))) THEN <<"P","o","s","i","t","i","v","e">>
  ELSE IF AnyIn(negative_variants, Upper(Strip(result))) THEN <<"N","e","g","a","t","i","v","e">>
  ELSE IF AnyIn(indeterminate_variants, Upper(Strip(result)))
       THEN <<"I","n","d","e","t","e","r","m","i","n","a","t","e">>
  ELSE Strip(result)

\* PDFParser.standardize_qualitative_result
standardize_qualitative_result(result) ==
  IF ~Truthy(result) THEN result
  ELSE IF AnyIn(negative_variants, Upper(Strip(result))) THEN <<"N","e","g","a","t","i","v","e">>
  ELSE IF AnyIn(positive_variants, Upper(Strip(result))) THEN <<"P","o","s","i","t","i","v","e">>
  ELSE IF AnyIn(indeterminate_variants, Upper(Strip(result)))
       THEN <<"I","n","d","e","t","e","r","m","i","n","a","t","e">>
  ELSE Strip(result)

(***************************************************************************)
(* Text filters                                                            *)
(***************************************************************************)

\* PDFParser.INSTRUCTIONAL_SKIP_PATTERNS
INSTRUCTIONAL_SKIP_PATTERNS == <<
  \* r'Comments?:'
  Cat(<<Lit(<<"C","o","m","m","e","n","t">>), Opt(Ch({"s"})), Ch({":"})>>),
  \* r'Interpretation:'
  Lit(<<"I","n","t","e","r","p","r","e","t","a","t","i","o","n",":">>),
  \* r'Please note'
  Lit(<<"P","l","e","a","s","e"," ","n","o","t","e">>),
  \* r'Note:'
  Lit(<<"N","o","t","e",":">>),
  \* r'Important:'
  Lit(<<"I","m","p","o","r","t","a","n","t",":">>),
  \* r'Instructions?:'
  Cat(<<Lit(<<"I","n","s","t","r","u","c","t","i","o","n">>), Opt(Ch({"s"})), Ch({":"})>>),
  \* r'Disclaimer:'
  Lit(<<"D","i","s","c","l","a","i","m","e","r",":">>),
  \* r'Warning:'
  Lit(<<"W","a","r","n","i","n","g",":">>),
  \* r'Request Problem'
  Lit(<<"R","e","q","u","e","s","t"," ","P","r","o","b","l","e","m">>),
  \* r'^\s*Borderline\s+High\s*$'
  Cat(<<Bol, Star(Ch(WS)), Lit(<<"B","o","r","d","e","r","l","i","n","e">>), Plus(Ch(WS)), Lit(<<"H","i","g","h">>), Star(Ch(WS)), Eol>>),
  \* r'^\s*Very\s+High\s*$'
  Cat(<<Bol, Star(Ch(WS)), Lit(<<"V","e","r","y">>), Plus(Ch(WS)), Lit(<<"H","i","g","h">>), Star(Ch(WS)), Eol>>),
  \* r'^\s*High\s*$'
  Cat(<<Bol, Star(Ch(WS)), Lit(<<"H","i","g","h">>), Star(Ch(WS)), Eol>>),
  \* r'^\s*Low\s*$'
  Cat(<<Bol, Star(Ch(WS)), Lit(<<"L","o","w">>), Star(Ch(WS)), Eol>>),
  \* r'^\s*Normal\s*$'
  Cat(<<Bol, Star(Ch(WS)), Lit(<<"N","o","r","m","a","l">>), Star(Ch(WS)), Eol>>),
  \* r'^\s*Abnormal\s*$'
  Cat(<<Bol, Star(Ch(WS)), Lit(<<"A","b","n","o","r","m","a","l">>), Star(Ch(WS)), Eol>>),
  \* r'^\s*High\s+Risk\s*$'
  Cat(<<Bol, Star(Ch(WS)), Lit(<<"H","i","g","h">>), Plus(Ch(WS)), Lit(<<"R","i","s","k">>), Star(Ch(WS)), Eol>>),
  \* r'^\s*Moderate\s+Risk\s*$'
  Cat(<<Bol, Star(Ch(WS)), Lit(<<"M","o","d","e","r","a","t","e">>), Plus(Ch(WS)), Lit(<<"R","i","s","k">>), Star(Ch(WS)), Eol>>),
  \* r'^\s*Low\s+Risk\s*$'
  Cat(<<Bol, Star(Ch(WS)), Lit(<<"L","o","w">>), Plus(Ch(WS)), Lit(<<"R","i","s","k">>), Star(Ch(WS)), Eol>>),
  \* r'insufficiency\s+as\s+a\s+level'
  Cat(<<Lit(<<"i","n","s","u","f","f","i","c","i","e","n","c","y">>), Plus(Ch(WS)), Lit(<<"a","s">>), Plus(Ch(WS)), Ch({"a"}), Plus(Ch(WS)), Lit(<<"l","e","v","e","l">>)>>),
  \* r'guideline\.\s*JCEM'
  Cat(<<Lit(<<"g","u","i","d","e","l","i","n","e",".">>), Star(Ch(WS)), Lit(<<"J","C","E","M">>)>>),
  \* r'between\s*$'
  Cat(<<Lit(<<"b","e","t","w","e","e","n">>), Star(Ch(WS)), Eol>>),
  \* r'^\s*Reference\s+Range\s*$'
  Cat(<<Bol, Star(Ch(WS)), Lit(<<"R","e","f","e","r","e","n","c","e">>), Plus(Ch(WS)), Lit(<<"R","a","n","g","e">>), Star(Ch(WS)), Eol>>),
  \* r'^\s*Flag\s*$'
  Cat(<<Bol, Star(Ch(WS)), Lit(<<"F","l","a","g">>), Star(Ch(WS)), Eol>>),
  \* r'^\s*Units?\s*$'
  Cat(<<Bol, Star(Ch(WS)), Lit(<<"U","n","i","t">>), Opt(Ch({"s"})), Star(Ch(WS)), Eol>>),
  \* r'^\s*Result\s*$'
  Cat(<<Bol, Star(Ch(WS)), Lit(<<"R","e","s","u","l","t">>), Star(Ch(WS)), Eol>>),
  \* r'^\s*Test\s*$'
  Cat(<<Bol, Star(Ch(WS)), Lit(<<"T","e","s","t">>), Star(Ch(WS)), Eol>>),
  \* r'^\s*Component\s*$'
  Cat(<<Bol, Star(Ch(WS)), Lit(<<"C","o","m","p","o","n","e","n","t">>), Star(Ch(WS)), Eol>>),
  \* r'^\s*Status\s*$'
  Cat(<<Bol, Star(Ch(WS)), Lit(<<"S","t","a","t","u","s">>), Star(Ch(WS)), Eol>>)
  >>

\* PDFParser.PAGINATION_PATTERNS
PAGINATION_PATTERNS == <<
  \* r'\s*page\s+\d+\s+of\s+\d+'
  Cat(<<Star(Ch(WS)), Lit(<<"p","a","g","e">>), Plus(Ch(WS)), Plus(Ch(Digit)), Plus(Ch(WS)), Lit(<<"o","f">>), Plus(Ch(WS)), Plus(Ch(Digit))>>),
  \* r'\s*\d+\s+of\s+\d+'
  Cat(<<Star(Ch(WS)), Plus(Ch(Digit)), Plus(Ch(WS)), Lit(<<"o","f">>), Plus(Ch(WS)), Plus(Ch(Digit))>>),
  \* r'\s*p\.\s*\d+\s*/\s*\d+'
  Cat(<<Star(Ch(WS)), Lit(<<"p",".">>), Star(Ch(WS)), Plus(Ch(Digit)), Star(Ch(WS)), Ch({"/"}), Star(Ch(WS)), Plus(Ch(Digit))>>),
  \* r'\s*\(\s*\d+\s*/\s*\d+\s*\)'
  Cat(<<Star(Ch(WS)), Ch({"("}), Star(Ch(WS)), Plus(Ch(Digit)), Star(Ch(WS)), Ch({"/"}), Star(Ch(WS)), Plus(Ch(Digit)), Star(Ch(WS)), Ch({")"})>>)
  >>

\* PDFParser._is_instructional_text
_is_instructional_text(text) ==
  IF ~Truthy(text) THEN FALSE
  ELSE \E i \in 1..Len(INSTRUCTIONAL_SKIP_PATTERNS) :
         ReSearch(INSTRUCTIONAL_SKIP_PATTERNS[i], text, TRUE).ok

RECURSIVE SubEach(_, _, _)
\* for pattern in pats[k..]: text = re.sub(pattern, '', text, flags=re.IGNORECASE)
SubEach(pats, k, text) ==
  IF k > Len(pats) THEN text
  ELSE SubEach(pats, k + 1, ReSub(pats[k], text, TRUE))

\* PDFParser._clean_pagination_text
_clean_pagination_text(text) ==
  IF ~Truthy(text) THEN text
  ELSE Strip(SubEach(PAGINATION_PATTERNS, 1, text))

\* invalid_artifacts of _is_valid_test_name
invalid_artifacts == <<
  <<"b","o","r","d","e","r","l","i","n","e"," ","h","i","g","h">>, <<"h","i","g","h">>, <<"l","o","w">>, <<"n","o","r","m","a","l">>, <<"a","b","n","o","r","m","a","l">>, <<"v","e","r","y"," ","h","i","g","h">>,
  <<"h","i","g","h"," ","r","i","s","k">>, <<"m","o","d","e","r","a","t","e"," ","r","i","s","k">>, <<"l","o","w"," ","r","i","s","k">>, <<"r","i","s","k">>,
  <<"r","e","s","u","l","t">>, <<"f","l","a","g">>, <<"u","n","i","t","s">>, <<"r","e","f","e","r","e","n","c","e">>, <<"i","n","t","e","r","v","a","l">>,
  <<"c","o","m","p","o","n","e","n","t">>, <<"s","t","a","t","u","s">>, <<"t","e","s","t">>, <<"r","a","n","g","e">>,
  <<"i","n","s","u","f","f","i","c","i","e","n","c","y">>, <<"g","u","i","d","e","l","i","n","e">>, <<"j","c","e","m">>, <<"b","e","t","w","e","e","n">>,
  <<"p","r","e","v","i","o","u","s">>, <<"c","u","r","r","e","n","t">>, <<"d","a","t","e">>, <<"c","o","l","l","e","c","t","e","d">>
  >>

\* _is_valid_test_name without the test of the length
IsValidTestNameAnyLength(test_name) ==
  IF ~Truthy(test_name) THEN FALSE
  ELSE IF _is_instructional_text(test_name) THEN FALSE
  ELSE ~AnyIn(invalid_artifacts, Lower(test_name))

\* PDFParser._is_valid_test_name
_is_valid_test_name(test_name) ==
  IF ~Truthy(test_name) \/ Len(test_name) < 3 THEN FALSE
  ELSE IF _is_instructional_text(test_name) THEN FALSE
  ELSE ~AnyIn(invalid_artifacts, Lower(test_name))

(***************************************************************************)
(* Known fallbacks                                                         *)
(***************************************************************************)

\* the fallback unit of apply_unit_mappings for a lower-cased test name, or
\* None when the name is not a recognized one
KnownUnit(test_name_lower) ==
  IF Contains(test_name_lower, <<"e","g","f","r">>) THEN <<"m","L","/","m","i","n","/","1",".","7","3","m">> \o <<"^2">>
  ELSE IF Contains(test_name_lower, <<"b","u","n","/","c","r","e","a","t","i","n","i","n","e">>)
          \/ Contains(test_name_lower, <<"b","u","n","/","c","r","e","a">>) THEN <<"r","a","t","i","o">>
  ELSE IF Contains(test_name_lower, <<"a","/","g"," ","r","a","t","i","o">>) THEN <<"r","a","t","i","o">>
  ELSE IF Contains(test_name_lower, <<"g","l","o","b","u","l","i","n">>)
          /\ Contains(test_name_lower, <<"t","o","t","a","l">>) THEN <<"g","/","d","L">>
  ELSE None

\* the tail of apply_unit_mappings, when the document's unit is empty
UnitFallback(test_name, current_unit) ==
  IF KnownUnit(Lower(test_name)) # None THEN KnownUnit(Lower(test_name))
  ELSE IF Truthy(current_unit) THEN current_unit ELSE <<>>

\* apply_unit_mappings with the known unit of a recognized test preferred
\* to the document's
ApplyUnitMappingsKnownFirst(test_name, current_unit) ==
  IF KnownUnit(Lower(test_name)) # None THEN KnownUnit(Lower(test_name))
  ELSE IF Truthy(current_unit) /\ Truthy(_clean_pagination_text(current_unit))
  THEN _clean_pagination_text(current_unit)
  ELSE UnitFallback(test_name, current_unit)

\* PDFParser.apply_unit_mappings
apply_unit_mappings(test_name, current_unit) ==
  IF Truthy(current_unit) /\ Truthy(_clean_pagination_text(current_unit))
  THEN _clean_pagination_text(current_unit)
  ELSE UnitFallback(test_name, current_unit)

\* float literal n / 10^e of the source
Num(n, e) == LowestTerms(FALSE, n, e)

\* an absent reference range {low: None, high: None, text: None}
NoRange == RefRange(NoneNum, NoneNum, None)

\* the fallback range of apply_reference_range_mappings for a lower-cased
\* test name
KnownRange(test_name_lower, current_range) ==
  IF Contains(test_name_lower, <<"e","g","f","r">>)
  THEN RefRange(Num(90, 0), NoneNum, <<">=">> \o <<"9","0">>)
  ELSE IF Contains(test_name_lower, <<"b","u","n","/","c","r","e","a","t","i","n","i","n","e">>)
          \/ Contains(test_name_lower, <<"b","u","n","/","c","r","e","a">>)
  THEN RefRange(Num(8, 0), Num(27, 0), <<"8","-","2","7">>)
  ELSE IF Contains(test_name_lower, <<"a","/","g"," ","r","a","t","i","o">>)
  THEN RefRange(Num(12, 1), Num(22, 1), <<"1",".","2","-","2",".","2">>)
  ELSE IF Contains(test_name_lower, <<"g","l","o","b","u","l","i","n">>)
          /\ Contains(test_name_lower, <<"t","o","t","a","l">>)
  THEN RefRange(Num(15, 1), Num(45, 1), <<"1",".","5","-","4",".","5">>)
  ELSE current_range

\* PDFParser.apply_reference_range_mappings
apply_reference_range_mappings(test_name, current_range) ==
  IF Truthy(current_range.text) THEN current_range
  ELSE KnownRange(Lower(test_name), current_range)

(***************************************************************************)
(* Panel Inference Engine                                                  *)
(***************************************************************************)

\* the least position of s at which old occurs, 0 when it does not occur
Find(s, old) ==
  IF Contains(s, old)
  THEN CHOOSE i \in 1..Len(s) :
         /\ SubSeq(s, i, i + Len(old) - 1) = old
         /\ \A j \in 1..(i - 1) : SubSeq(s, j, j + Len(old) - 1) # old
  ELSE 0

RECURSIVE Replace(_, _, _)
\* s.replace(old, new): the non-overlapping occurrences, left to right
Replace(s, old, new) ==
  IF Find(s, old) = 0 THEN s
  ELSE SubSeq(s, 1, Find(s, old) - 1) \o new
       \o Replace(SubSeq(s, Find(s, old) + Len(old), Len(s)), old, new)

\* panel_test_patterns of infer_panel_from_test_name, in the dict's order
panel_test_patterns == <<
  [type |-> "cbc", patterns |-> <<<<"w","b","c">>, <<"r","b","c">>, <<"h","e","m","o","g","l","o","b","i","n">>, <<"h","e","m","a","t","o","c","r","i","t">>,
     <<"m","c","v">>, <<"m","c","h">>, <<"m","c","h","c">>, <<"r","d","w">>, <<"p","l","a","t","e","l","e","t","s">>, <<"n","e","u","t","r","o","p","h","i","l","s">>,
     <<"l","y","m","p","h","s">>, <<"m","o","n","o","c","y","t","e","s">>, <<"e","o","s">>, <<"b","a","s","o","s">>, <<"p","l","a","t","e","l","e","t">>>>],
  [type |-> "metabolic", patterns |-> <<<<"g","l","u","c","o","s","e">>, <<"b","u","n">>, <<"c","r","e","a","t","i","n","i","n","e">>, <<"e","g","f","r">>,
     <<"s","o","d","i","u","m">>, <<"p","o","t","a","s","s","i","u","m">>, <<"c","h","l","o","r","i","d","e">>, <<"c","o","2">>, <<"c","a","r","b","o","n"," ","d","i","o","x","i","d","e">>,
     <<"a","l","b","u","m","i","n">>, <<"p","r","o","t","e","i","n">>, <<"b","i","l","i","r","u","b","i","n">>, <<"a","l","k","a","l","i","n","e">>, <<"a","s","t">>, <<"a","l","t">>>>],
  [type |-> "lipid", patterns |-> <<<<"c","h","o","l","e","s","t","e","r","o","l">>, <<"t","r","i","g","l","y","c","e","r","i","d","e","s">>, <<"h","d","l">>,
     <<"l","d","l">>, <<"v","l","d","l">>>>],
  [type |-> "hepatitis", patterns |-> <<<<"h","b","s","a","g">>, <<"h","c","v">>, <<"h","e","p"," ","a">>, <<"h","e","p"," ","b">>,
     <<"h","e","p","a","t","i","t","i","s">>>>],
  [type |-> "thyroid", patterns |-> <<<<"t","s","h">>, <<"t","h","y","r","o","i","d">>>>],
  [type |-> "vitamin", patterns |-> <<<<"v","i","t","a","m","i","n">>, <<"b","1","2">>, <<"f","o","l","a","t","e">>>>],
  [type |-> "hormone", patterns |-> <<<<"t","e","s","t","o","s","t","e","r","o","n","e">>, <<"e","s","t","r","o","g","e","n">>, <<"h","o","r","m","o","n","e">>>>],
  [type |-> "diabetes", patterns |-> <<<<"a","1","c">>, <<"h","e","m","o","g","l","o","b","i","n"," ","a","1","c">>>>]
  >>

\* sum(1 for pattern in test_patterns if pattern in test_name_lower)
KeywordHits(test_patterns, test_name_lower) ==
  Cardinality({i \in 1..Len(test_patterns) : Contains(test_name_lower, test_patterns[i])})

\* TypeMatch with a cbc discriminator that does not exclude "metabolic"
TypeMatchCbcAny(panel_type, ordered_panel_lower) ==
  CASE panel_type = "metabolic" ->
         Contains(ordered_panel_lower, <<"m","e","t","a","b","o","l","i","c">>)
           \/ Contains(ordered_panel_lower, <<"c","m","p">>)
    [] panel_type = "cbc" ->
         Contains(ordered_panel_lower, <<"c","b","c">>)
           \/ Contains(ordered_panel_lower, <<"b","l","o","o","d"," ","c","o","u","n","t">>)
    [] panel_type = "lipid" -> Contains(ordered_panel_lower, <<"l","i","p","i","d">>)
    [] panel_type = "hepatitis" -> Contains(ordered_panel_lower, <<"h","e","p","a","t","i","t","i","s">>)
    [] panel_type = "thyroid" -> Contains(ordered_panel_lower, <<"t","h","y","r","o","i","d">>)
    [] panel_type = "vitamin" -> Contains(ordered_panel_lower, <<"v","i","t","a","m","i","n">>)
    [] panel_type = "hormone" ->
         Contains(ordered_panel_lower, <<"h","o","r","m","o","n","e">>)
           \/ Contains(ordered_panel_lower, <<"t","e","s","t","o","s","t","e","r","o","n","e">>)
    [] panel_type = "diabetes" -> Contains(ordered_panel_lower, <<"a","1","c">>)
    [] OTHER -> FALSE

\* type_match: the discriminator of panel_type on a lower-cased ordered panel
TypeMatch(panel_type, ordered_panel_lower) ==
  CASE panel_type = "metabolic" ->
         Contains(ordered_panel_lower, <<"m","e","t","a","b","o","l","i","c">>)
           \/ Contains(ordered_panel_lower, <<"c","m","p">>)
    [] panel_type = "cbc" ->
         /\ Contains(ordered_panel_lower, <<"c","b","c">>)
              \/ Contains(ordered_panel_lower, <<"b","l","o","o","d"," ","c","o","u","n","t">>)
         /\ ~Contains(ordered_panel_lower, <<"m","e","t","a","b","o","l","i","c">>)
    [] panel_type = "lipid" -> Contains(ordered_panel_lower, <<"l","i","p","i","d">>)
    [] panel_type = "hepatitis" -> Contains(ordered_panel_lower, <<"h","e","p","a","t","i","t","i","s">>)
    [] panel_type = "thyroid" -> Contains(ordered_panel_lower, <<"t","h","y","r","o","i","d">>)
    [] panel_type = "vitamin" -> Contains(ordered_panel_lower, <<"v","i","t","a","m","i","n">>)
    [] panel_type = "hormone" ->
         Contains(ordered_panel_lower, <<"h","o","r","m","o","n","e">>)
           \/ Contains(ordered_panel_lower, <<"t","e","s","t","o","s","t","e","r","o","n","e">>)
    [] panel_type = "diabetes" -> Contains(ordered_panel_lower, <<"a","1","c">>)
    [] OTHER -> FALSE

RECURSIVE InferLoopLast(_, _, _, _, _)
\* InferLoop with a match of as many hits taking the place of best_match
InferLoopLast(k, j, best, test_name_lower, ordered_panels) ==
  IF k > Len(panel_test_patterns) THEN best.panel
  ELSE IF j > Len(ordered_panels)
          \/ KeywordHits(panel_test_patterns[k].patterns, test_name_lower) = 0
  THEN InferLoopLast(k + 1, 1, best, test_name_lower, ordered_panels)
  ELSE IF TypeMatch(panel_test_patterns[k].type, Lower(ordered_panels[j]))
          /\ KeywordHits(panel_test_patterns[k].patterns, test_name_lower) >= best.count
  THEN InferLoopLast(k, j + 1,
         [panel |-> ordered_panels[j],
          count |-> KeywordHits(panel_test_patterns[k].patterns, test_name_lower)],
         test_name_lower, ordered_panels)
  ELSE InferLoopLast(k, j + 1, best, test_name_lower, ordered_panels)

RECURSIVE InferLoop(_, _, _, _, _)
\* the two nested loops of infer_panel_from_test_name from panel type k and
\* ordered panel j on; best is [panel, count] (best_match, best_match_count)
InferLoop(k, j, best, test_name_lower, ordered_panels) ==
  IF k > Len(panel_test_patterns) THEN best.panel
  ELSE IF j > Len(ordered_panels)
          \/ KeywordHits(panel_test_patterns[k].patterns, test_name_lower) = 0
  THEN InferLoop(k + 1, 1, best, test_name_lower, ordered_panels)
  ELSE IF TypeMatch(panel_test_patterns[k].type, Lower(ordered_panels[j]))
          /\ KeywordHits(panel_test_patterns[k].patterns, test_name_lower) > best.count
  THEN InferLoop(k, j + 1,
         [panel |-> ordered_panels[j],
          count |-> KeywordHits(panel_test_patterns[k].patterns, test_name_lower)],
         test_name_lower, ordered_panels)
  ELSE InferLoop(k, j + 1, best, test_name_lower, ordered_panels)

\* PDFParser.infer_panel_from_test_name (None when no panel is inferred)
infer_panel_from_test_name(test_name, ordered_panels) ==
  IF ~Truthy(test_name) \/ ordered_panels = <<>> THEN None
  ELSE InferLoop(1, 1, [panel |-> None, count |-> 0],
         Strip(Replace(Replace(Lower(test_name), <<"\n">>, <<" ">>), <<" ", " ">>, <<" ">>)),
         ordered_panels)

(***************************************************************************)
(* TestRecord producers.  A record is read as its consumers read the dict, *)
(* with test.get(key): a key the producing strategy does not set reads     *)
(* None (False for is_numeric and is_qualitative).  The field result is    *)
(* the printed text (s) for the table and per-page text strategies and a   *)
(* float (f) for the vendor grammar.                                       *)
(***************************************************************************)

StrResult(s) == [s |-> s, f |-> NoneNum]

NumResult(f) == [s |-> None, f |-> f]

\* self.numeric_pattern
numeric_pattern ==
  \* r'^[<>]?[\d.]+$'
  Cat(<<Bol, Opt(Ch({"<",">"})), Plus(Ch(Digit \cup {"."})), Eol>>)

\* self.unit_pattern
unit_pattern ==
  \* r'^[A-Za-z/%\-\(\).]+$'
  Cat(<<Bol, Plus(Ch(UpperSet \cup LowerSet \cup {"/","%","-","(",")","."})), Eol>>)

\* self.range_pattern
range_pattern ==
  \* r'-|>|<'
  Ch({"-",">","<"})

\* IsCountArtifact with the keywords compared in the case of the name
IsCountArtifactCased(test_name, result) ==
  /\ result = <<"0", "1">>
  /\ AnyIn(<<<<"i","m","m","a","t","u","r","e">>, <<"n","r","b","c">>, <<"c","o","m","m","e","n","t">>>>, test_name)

\* result == "01" and any(keyword in test_name.lower() for keyword in
\* ['immature', 'nrbc', 'comment'])
IsCountArtifact(test_name, result) ==
  /\ result = <<"0", "1">>
  /\ AnyIn(<<<<"i","m","m","a","t","u","r","e">>, <<"n","r","b","c">>, <<"c","o","m","m","e","n","t">>>>, Lower(test_name))

\* the dict that process_row_with_headers (lines 587-614) and
\* process_row_heuristic (lines 664-691) build from the extracted cells
RowRecord(test_name, result, unit, reference_range) ==
  [name |-> test_name,
   result |-> StrResult(result),
   result_text |-> IF is_qualitative_result(result)
                   THEN standardize_qualitative_result(result) ELSE None,
   unit |-> apply_unit_mappings(test_name, unit),
   reference_range |->
     parse_reference_range(IF Truthy(reference_range) THEN reference_range ELSE <<>>),
   is_numeric |-> ~is_qualitative_result(result) /\ parse_numeric_result(result) # NoneNum,
   is_qualitative |-> is_qualitative_result(result),
   numeric_value |-> IF is_qualitative_result(result) THEN NoneNum
                     ELSE parse_numeric_result(result),
   panel_name |-> None,
   flag |-> None]

\* one iteration of the loop of process_row_heuristic: st holds test_name,
\* result, unit and reference_range
HeuristicCell(st, cell) ==
  IF Truthy(cell) /\ ~Truthy(st.test_name) /\ ~ReMatch(numeric_pattern, cell, FALSE).ok
  THEN IF _is_valid_test_name(_clean_pagination_text(JoinWords(cell)))
       THEN [st EXCEPT !.test_name = _clean_pagination_text(JoinWords(cell))]
       ELSE [st EXCEPT !.test_name = None]
  ELSE IF Truthy(cell) /\ ~Truthy(st.result) /\ ReMatch(numeric_pattern, cell, FALSE).ok
  THEN [st EXCEPT !.result = cell]
  ELSE IF Truthy(cell) /\ ~Truthy(st.unit) /\ ReMatch(unit_pattern, cell, FALSE).ok
  THEN [st EXCEPT !.unit = _clean_pagination_text(cell)]
  ELSE IF Truthy(cell) /\ ~Truthy(st.reference_range)
          /\ ReSearch(range_pattern, cell, FALSE).ok
  THEN [st EXCEPT !.reference_range = cell]
  ELSE st

RECURSIVE HeuristicLoop(_, _, _)
\* for i, cell in enumerate(row): from cell i on
HeuristicLoop(st, row, i) ==
  IF i > Len(row) THEN st
  ELSE HeuristicLoop(HeuristicCell(st, row[i]), row, i + 1)

\* process_row_heuristic after its loop
HeuristicRecord(st) ==
  IF ~Truthy(st.test_name) \/ ~Truthy(st.result) THEN <<>>
  ELSE IF IsCountArtifact(st.test_name, st.result) THEN <<>>
  ELSE <<RowRecord(st.test_name, st.result, st.unit, st.reference_range)>>

\* PDFParser.process_row_heuristic: <<>> (None) or <<the record>>
process_row_heuristic(row) ==
  HeuristicRecord(HeuristicLoop(
    [test_name |-> None, result |-> None, unit |-> None, reference_range |-> None],
    row, 1))

\* header.strip().upper() if header else ''
NormalizedHeader(header) == IF Truthy(header) THEN Upper(Strip(header)) ELSE <<>>

\* the key of column_map that a normalized header is stored under
\* ("ignored": a FLAG or LAB column; "none": no role)
HeaderRole(header) ==
  IF Contains(header, <<"T","E","S","T">>) THEN "test"
  ELSE IF Contains(header, <<"R","E","S","U","L","T">>) THEN "result"
  ELSE IF Contains(header, <<"U","N","I","T">>) THEN "unit"
  ELSE IF Contains(header, <<"R","E","F","E","R","E","N","C","E">>) \/ Contains(header, <<"I","N","T","E","R","V","A","L">>)
  THEN "reference"
  ELSE IF Contains(header, <<"F","L","A","G">>) \/ Contains(header, <<"L","A","B">>) THEN "ignored"
  ELSE "none"

\* ColumnOf for the fixed layout TEST, RESULT, FLAG, REFERENCE INTERVAL,
\* UNIT, whatever the headers say
ColumnOfLayout(role, headers) ==
  CASE role = "test" -> 1
    [] role = "result" -> 2
    [] role = "reference" -> 4
    [] role = "unit" -> 5
    [] OTHER -> 0

\* column_map[role] as a 1-based column (a later header of the same role
\* overwrites an earlier one), 0 when the key is not in column_map
ColumnOf(role, headers) ==
  LET cols == {i \in 1..Len(headers) : HeaderRole(NormalizedHeader(headers[i])) = role}
  IN IF cols = {} THEN 0 ELSE CHOOSE i \in cols : \A j \in cols : j <= i

\* row[column_map[role]] if role in column_map and column_map[role] < len(row)
\* else None
MappedCell(role, row, headers) ==
  IF ColumnOf(role, headers) # 0 /\ ColumnOf(role, headers) <= Len(row)
  THEN row[ColumnOf(role, headers)] ELSE None

\* process_row_with_headers from "If no explicit column mapping worked" on
HeadersRecord(test_name, result, unit, reference_range, row) ==
  IF ~Truthy(test_name) \/ ~Truthy(result) THEN process_row_heuristic(row)
  ELSE IF _is_instructional_text(test_name) THEN <<>>
  ELSE IF IsCountArtifact(test_name, result) THEN <<>>
  ELSE <<RowRecord(test_name, result, unit, reference_range)>>

\* a truthy cell cleaned of pagination text, any other cell as it is
CleanedIfAny(cell) == IF Truthy(cell) THEN _clean_pagination_text(cell) ELSE cell

\* PDFParser.process_row_with_headers: <<>> (None) or <<the record>>
process_row_with_headers(row, headers) ==
  IF Truthy(MappedCell("test", row, headers))
     /\ ~_is_valid_test_name(
           _clean_pagination_text(JoinWords(MappedCell("test", row, headers))))
  THEN <<>>
  ELSE HeadersRecord(
         IF Truthy(MappedCell("test", row, headers))
         THEN _clean_pagination_text(JoinWords(MappedCell("test", row, headers)))
         ELSE MappedCell("test", row, headers),
         MappedCell("result", row, headers),
         CleanedIfAny(MappedCell("unit", row, headers)),
         MappedCell("reference", row, headers),
         row)

\* cleaned_row = [cell.strip() if cell else '' for cell in row]
CleanedRow(row) == [i \in 1..Len(row) |-> IF Truthy(row[i]) THEN Strip(row[i]) ELSE <<>>]

\* PDFParser.process_table_row
process_table_row(row, headers) ==
  IF row = <<>> THEN <<>>
  ELSE IF \A i \in 1..Len(row) : ~Truthy(CleanedRow(row)[i]) THEN <<>>
  ELSE IF _is_instructional_text(CleanedRow(row)[1]) THEN <<>>
  ELSE IF headers # <<>> THEN process_row_with_headers(CleanedRow(row), headers)
  ELSE process_row_heuristic(CleanedRow(row))

\* the line pattern of extract_tests_from_text
text_line_pattern ==
  \* r'^([A-Za-z][A-Za-z\s,\-]+?)\s+([<>]?[\d.]+)(?:\s+([A-Za-z/%\-\(\)]+))?(?:\s+([<>]?[\d.<>-]+(?:\.\d+)?(?:-[<>]?[\d.]+(?:\.\d+)?)?))?$'
  Cat(<<Bol, Grp(1, Cat(<<Ch(UpperSet \cup LowerSet), RepLazy(Ch(UpperSet \cup LowerSet \cup WS \cup {",","-"}), 1, -1)>>)), Plus(Ch(WS)), Grp(2, Cat(<<Opt(Ch({"<",">"})), Plus(Ch(Digit \cup {"."}))>>)), Opt(Cat(<<Plus(Ch(WS)), Grp(3, Plus(Ch(UpperSet \cup LowerSet \cup {"/","%","-","(",")"})))>>)), Opt(Cat(<<Plus(Ch(WS)), Grp(4, Cat(<<Opt(Ch({"<",">"})), Plus(Ch(Digit \cup {".","<",">","-"})), Opt(Cat(<<Ch({"."}), Plus(Ch(Digit))>>)), Opt(Cat(<<Ch({"-"}), Opt(Ch({"<",">"})), Plus(Ch(Digit \cup {"."})), Opt(Cat(<<Ch({"."}), Plus(Ch(Digit))>>))>>))>>))>>)), Eol>>)

\* r'^[\d.]+$'
digits_only_pattern ==
  \* r'^[\d.]+$'
  Cat(<<Bol, Plus(Ch(Digit \cup {"."})), Eol>>)

\* the dict extract_tests_from_text builds for an accepted line
TextRecord(name, result, unit, ref_range_text, ordered_panels) ==
  [name |-> name,
   result |-> StrResult(result),
   result_text |-> None,
   unit |-> unit,
   reference_range |-> parse_reference_range(ref_range_text),
   is_numeric |-> parse_numeric_result(result) # NoneNum,
   is_qualitative |-> FALSE,
   numeric_value |-> parse_numeric_result(result),
   panel_name |-> IF ordered_panels # <<>>
                  THEN infer_panel_from_test_name(name, ordered_panels) ELSE None,
   flag |-> None]

\* the body of the loop of extract_tests_from_text for a match m of the
\* stripped line
TextLineOfMatch(line, m, ordered_panels) ==
  IF ~m.ok THEN <<>>
  ELSE IF ~_is_valid_test_name(_clean_pagination_text(JoinWords(Strip(Group(line, m, 1)))))
          \/ ReMatch(digits_only_pattern,
                     _clean_pagination_text(JoinWords(Strip(Group(line, m, 1)))), FALSE).ok
  THEN <<>>
  ELSE <<TextRecord(
           _clean_pagination_text(JoinWords(Strip(Group(line, m, 1)))),
           Strip(Group(line, m, 2)),
           _clean_pagination_text(Strip(GroupOr(line, m, 3))),
           Strip(GroupOr(line, m, 4)),
           ordered_panels)>>

\* extract_tests_from_text for one line
TextLine(line, ordered_panels) ==
  IF Strip(line) = <<>> THEN <<>>
  ELSE TextLineOfMatch(Strip(line), ReMatch(text_line_pattern, Strip(line), FALSE),
                       ordered_panels)

RECURSIVE TextLines(_, _, _)
\* for line in lines: from line i on
TextLines(lines, i, ordered_panels) ==
  IF i > Len(lines) THEN <<>>
  ELSE TextLine(lines[i], ordered_panels) \o TextLines(lines, i + 1, ordered_panels)

\* PDFParser.extract_tests_from_text
extract_tests_from_text(text, ordered_panels) ==
  TextLines(Split(text, "\n"), 1, ordered_panels)

\* labcorp_pattern of parse_labcorp_test_line
labcorp_pattern ==
  \* r'^([A-Za-z][A-Za-z\s\.,/()]+?)\s+\d{2}\s+([\d\.]+)\s*([A-Za-z]*)\s+[\d\.\*]*\s+\d{2}/\d{2}/\d{4}\s+([A-Za-z/\d]+)\s+([\d\.\-<>]+)'
  Cat(<<Bol, Grp(1, Cat(<<Ch(UpperSet \cup LowerSet), RepLazy(Ch(UpperSet \cup LowerSet \cup WS \cup {".",",","/","(",")"}), 1, -1)>>)), Plus(Ch(WS)), Rep(Ch(Digit), 2, 2), Plus(Ch(WS)), Grp(2, Plus(Ch(Digit \cup {"."}))), Star(Ch(WS)), Grp(3, Star(Ch(UpperSet \cup LowerSet))), Plus(Ch(WS)), Star(Ch(Digit \cup {".","*"})), Plus(Ch(WS)), Rep(Ch(Digit), 2, 2), Ch({"/"}), Rep(Ch(Digit), 2, 2), Ch({"/"}), Rep(Ch(Digit), 4, 4), Plus(Ch(WS)), Grp(4, Plus(Ch(UpperSet \cup LowerSet \cup Digit \cup {"/"}))), Plus(Ch(WS)), Grp(5, Plus(Ch(Digit \cup {".","-","<",">"})))>>)

\* simple_pattern of parse_labcorp_test_line
simple_pattern ==
  \* r'^([A-Za-z][A-Za-z\s\.,/()]+?)\s+([\d\.]+)\s*([A-Za-z]*)\s'
  Cat(<<Bol, Grp(1, Cat(<<Ch(UpperSet \cup LowerSet), RepLazy(Ch(UpperSet \cup LowerSet \cup WS \cup {".",",","/","(",")"}), 1, -1)>>)), Plus(Ch(WS)), Grp(2, Plus(Ch(Digit \cup {"."}))), Star(Ch(WS)), Grp(3, Star(Ch(UpperSet \cup LowerSet))), Ch(WS)>>)

\* LabcorpRecord with the parsed number stored under numeric_value as well
LabcorpRecordWithValue(test_name, result_value, unit, flag, reference_range) ==
  [name |-> test_name,
   result |-> NumResult(TryFloat(result_value)),
   result_text |-> result_value,
   unit |-> unit,
   reference_range |-> reference_range,
   is_numeric |-> TryFloat(result_value) # NoneNum,
   is_qualitative |-> FALSE,
   numeric_value |-> TryFloat(result_value),
   panel_name |-> None,
   flag |-> flag]

\* the dict parse_labcorp_test_line builds (keys it does not set read as
\* None or False)
LabcorpRecord(test_name, result_value, unit, flag, reference_range) ==
  [name |-> test_name,
   result |-> NumResult(TryFloat(result_value)),
   result_text |-> result_value,
   unit |-> unit,
   reference_range |-> reference_range,
   is_numeric |-> FALSE,
   is_qualitative |-> FALSE,
   numeric_value |-> NoneNum,
   panel_name |-> None,
   flag |-> flag]

\* match.group(3) if match.group(3) else None
GroupOrNone(s, m, g) == IF Truthy(Group(s, m, g)) THEN Group(s, m, g) ELSE None

\* parse_labcorp_test_line for a match m of labcorp_pattern
LabcorpFull(line, m) ==
  IF ~_is_valid_test_name(Strip(Group(line, m, 1))) THEN <<>>
  ELSE <<LabcorpRecord(
           Strip(Group(line, m, 1)),
           Group(line, m, 2),
           Group(line, m, 4),
           GroupOrNone(line, m, 3),
           apply_reference_range_mappings(Strip(Group(line, m, 1)),
             RefRange(parse_reference_range(Group(line, m, 5)).low,
                      parse_reference_range(Group(line, m, 5)).high,
                      Group(line, m, 5))))>>

\* parse_labcorp_test_line for a match m of simple_pattern
LabcorpSimple(line, m) ==
  IF ~m.ok THEN <<>>
  ELSE IF ~_is_valid_test_name(Strip(Group(line, m, 1))) THEN <<>>
  ELSE <<LabcorpRecord(
           Strip(Group(line, m, 1)),
           Group(line, m, 2),
           apply_unit_mappings(Strip(Group(line, m, 1)), GroupOrNone(line, m, 3)),
           GroupOrNone(line, m, 3),
           apply_reference_range_mappings(Strip(Group(line, m, 1)), NoRange))>>

\* PDFParser.parse_labcorp_test_line: <<>> (None) or <<the record>>
parse_labcorp_test_line(line) ==
  IF ~Truthy(line) \/ Len(Strip(line)) < 3 THEN <<>>
  ELSE IF ~_is_valid_test_name(line) THEN <<>>
  ELSE IF ReMatch(labcorp_pattern, line, FALSE).ok
  THEN LabcorpFull(line, ReMatch(labcorp_pattern, line, FALSE))
  ELSE LabcorpSimple(line, ReMatch(simple_pattern, line, FALSE))

(***************************************************************************)
(* Metadata Extractor: collection date.  date_parser.parse is              *)
(* dateutil.parser.parse with its defaults (dayfirst and yearfirst off,    *)
(* default = today at midnight), modelled for the strings the date         *)
(* patterns capture whose leading word, if any, is a month name, one of    *)
(* dateutil's jump words or a number of one or two digits; any other word  *)
(* is an unknown string format (weekday names are outside these inputs).   *)
(* A date is [y, m, d]; NoDate stands for the ParserError.                 *)
(***************************************************************************)

NoDate == [y |-> 0, m |-> 0, d |-> 0]

IsLeap(y) == (y % 4 = 0 /\ y % 100 # 0) \/ y % 400 = 0

\* calendar.monthrange(y, m)[1]
DaysIn(y, m) ==
  IF m = 2 THEN (IF IsLeap(y) THEN 29 ELSE 28)
  ELSE IF m \in {4, 6, 9, 11} THEN 30 ELSE 31

\* the dates datetime accepts
ValidDate(y, m, d) ==
  /\ y >= 1 /\ y <= 9999
  /\ m >= 1 /\ m <= 12
  /\ d >= 1 /\ d <= DaysIn(y, m)

\* parserinfo.MONTHS, lower case
MonthNames == <<
  <<<<"j","a","n">>, <<"j","a","n","u","a","r","y">>>>, <<<<"f","e","b">>, <<"f","e","b","r","u","a","r","y">>>>, <<<<"m","a","r">>, <<"m","a","r","c","h">>>>,
  <<<<"a","p","r">>, <<"a","p","r","i","l">>>>, <<<<"m","a","y">>>>, <<<<"j","u","n">>, <<"j","u","n","e">>>>,
  <<<<"j","u","l">>, <<"j","u","l","y">>>>, <<<<"a","u","g">>, <<"a","u","g","u","s","t">>>>,
  <<<<"s","e","p">>, <<"s","e","p","t">>, <<"s","e","p","t","e","m","b","e","r">>>>, <<<<"o","c","t">>, <<"o","c","t","o","b","e","r">>>>,
  <<<<"n","o","v">>, <<"n","o","v","e","m","b","e","r">>>>, <<<<"d","e","c">>, <<"d","e","c","e","m","b","e","r">>>> >>

\* parserinfo.month(name): 1..12, or 0 for None
MonthOf(name) ==
  IF \E k \in 1..Len(MonthNames) : \E j \in 1..Len(MonthNames[k]) :
       MonthNames[k][j] = Lower(name)
  THEN CHOOSE k \in 1..Len(MonthNames) : \E j \in 1..Len(MonthNames[k]) :
         MonthNames[k][j] = Lower(name)
  ELSE 0

\* the words of parserinfo.JUMP
JumpWords == {<<"a","t">>, <<"o","n">>, <<"a","n","d">>, <<"a","d">>, <<"m">>, <<"t">>, <<"o","f">>,
              <<"s","t">>, <<"n","d">>, <<"r","d">>, <<"t","h">>}

\* parserinfo.jump(name)
IsJump(name) == Lower(name) \in JumpWords

IsNumber(s) == s # <<>> /\ \A i \in 1..Len(s) : s[i] \in Digit

\* parserinfo.convertyear: a year below 100 without a century is placed
\* within fifty years of the current year
convertyear(year, century_specified, today) ==
  IF year < 100 /\ ~century_specified
  THEN IF year + (today.y \div 100) * 100 >= today.y + 50
       THEN year + (today.y \div 100) * 100 - 100
       ELSE IF year + (today.y \div 100) * 100 < today.y - 50
       THEN year + (today.y \div 100) * 100 + 100
       ELSE year + (today.y \div 100) * 100
  ELSE year

\* _ymd.resolve_ymd for three numbers without a month name (-1: None)
ResolveThree(a, b, c, year_first) ==
  IF a > 31 \/ year_first THEN [y |-> a, m |-> b, d |-> c]
  ELSE IF a > 12 THEN [y |-> c, m |-> b, d |-> a]
  ELSE [y |-> c, m |-> a, d |-> b]

\* _ymd.resolve_ymd for two numbers without a month name
ResolveTwo(a, b) ==
  IF a > 31 THEN [y |-> a, m |-> b, d |-> -1]
  ELSE IF b > 31 THEN [y |-> b, m |-> a, d |-> -1]
  ELSE [y |-> -1, m |-> a, d |-> b]

\* _ymd.resolve_ymd for a month name followed by two numbers, the second
\* labelled as the year or not
ResolveMonthFirst(month, b, c, year_labelled) ==
  IF year_labelled THEN [y |-> c, m |-> month, d |-> b]
  ELSE IF b > 31 THEN [y |-> b, m |-> month, d |-> c]
  ELSE [y |-> c, m |-> month, d |-> b]

\* parser._build_naive for the resolved year and month ym: the fields the
\* string does not give are today's, a missing day no later than the end of
\* the month
BuiltDate(ym, day, today) ==
  IF ym.m < 1 \/ ym.m > 12 \/ ym.y < 1 \/ ym.y > 9999 THEN NoDate
  ELSE IF day = -1
  THEN [y |-> ym.y, m |-> ym.m,
        d |-> IF today.d > DaysIn(ym.y, ym.m) THEN DaysIn(ym.y, ym.m) ELSE today.d]
  ELSE IF ValidDate(ym.y, ym.m, day) THEN [y |-> ym.y, m |-> ym.m, d |-> day]
  ELSE NoDate

\* the datetime of the resolved fields r
DateOfFields(r, century_specified, today) ==
  BuiltDate([y |-> IF r.y = -1 THEN today.y
                   ELSE convertyear(r.y, century_specified, today),
             m |-> IF r.m = -1 THEN today.m ELSE r.m],
            r.d, today)

\* the value of a string of digits
IntOf(ds) == DigitsVal(ds, 0)

\* strings of the shape A/B/YYYY
slash_date ==
  \* r'^(\d{1,2})/(\d{1,2})/(\d{4})$'
  Cat(<<Bol, Grp(1, Rep(Ch(Digit), 1, 2)), Ch({"/"}), Grp(2, Rep(Ch(Digit), 1, 2)), Ch({"/"}), Grp(3, Rep(Ch(Digit), 4, 4)), Eol>>)

\* strings of the shape YYYY-MM-DD
iso_date ==
  \* r'^(\d{4})-(\d{2})-(\d{2})$'
  Cat(<<Bol, Grp(1, Rep(Ch(Digit), 4, 4)), Ch({"-"}), Grp(2, Rep(Ch(Digit), 2, 2)), Ch({"-"}), Grp(3, Rep(Ch(Digit), 2, 2)), Eol>>)

\* strings of the shape "word D, YYYY"
word_date ==
  \* r'^(\w+)\s+(\d{1,2}),?\s+(\d{4})$'
  Cat(<<Bol, Grp(1, Plus(Ch(WordCh))), Plus(Ch(WS)), Grp(2, Rep(Ch(Digit), 1, 2)), Opt(Ch({","})), Plus(Ch(WS)), Grp(3, Rep(Ch(Digit), 4, 4)), Eol>>)

\* strings of the shape D-www-YYYY
dash_date ==
  \* r'^(\d{1,2})-(\w{3})-(\d{4})$'
  Cat(<<Bol, Grp(1, Rep(Ch(Digit), 1, 2)), Ch({"-"}), Grp(2, Rep(Ch(WordCh), 3, 3)), Ch({"-"}), Grp(3, Rep(Ch(Digit), 4, 4)), Eol>>)

\* parse of "word D, YYYY": w the word, b the day number, c the four digits
ParseWordDate(w, b, c, today) ==
  IF MonthOf(w) # 0
  THEN DateOfFields(ResolveMonthFirst(MonthOf(w), b, c, c > 100), c > 100, today)
  ELSE IF IsJump(w) THEN DateOfFields(ResolveTwo(b, c), c > 100, today)
  ELSE IF IsNumber(w) /\ Len(w) <= 2
  THEN DateOfFields(ResolveThree(IntOf(w), b, c, FALSE), c > 100, today)
  ELSE NoDate

\* parse of D-www-YYYY
ParseDashDate(a, w, c, today) ==
  IF MonthOf(w) # 0 THEN DateOfFields([y |-> c, m |-> MonthOf(w), d |-> a], TRUE, today)
  ELSE IF IsJump(w) THEN DateOfFields(ResolveTwo(a, c), TRUE, today)
  ELSE NoDate

\* date_parser.parse(date_str) on the day today
DateParse(s, today) ==
  IF ReMatch(slash_date, s, FALSE).ok
  THEN DateOfFields(
         ResolveThree(IntOf(Group(s, ReMatch(slash_date, s, FALSE), 1)),
                      IntOf(Group(s, ReMatch(slash_date, s, FALSE), 2)),
                      IntOf(Group(s, ReMatch(slash_date, s, FALSE), 3)), FALSE),
         TRUE, today)
  ELSE IF ReMatch(iso_date, s, FALSE).ok
  THEN DateOfFields(
         ResolveThree(IntOf(Group(s, ReMatch(iso_date, s, FALSE), 1)),
                      IntOf(Group(s, ReMatch(iso_date, s, FALSE), 2)),
                      IntOf(Group(s, ReMatch(iso_date, s, FALSE), 3)), TRUE),
         TRUE, today)
  ELSE IF ReMatch(word_date, s, FALSE).ok
  THEN ParseWordDate(Group(s, ReMatch(word_date, s, FALSE), 1),
                     IntOf(Group(s, ReMatch(word_date, s, FALSE), 2)),
                     IntOf(Group(s, ReMatch(word_date, s, FALSE), 3)), today)
  ELSE IF ReMatch(dash_date, s, FALSE).ok
  THEN ParseDashDate(IntOf(Group(s, ReMatch(dash_date, s, FALSE), 1)),
                     Group(s, ReMatch(dash_date, s, FALSE), 2),
                     IntOf(Group(s, ReMatch(dash_date, s, FALSE), 3)), today)
  ELSE NoDate

RECURSIVE Padded(_, _)
\* the decimal digits of n, zero-filled to width characters
Padded(n, width) ==
  IF width <= 1 /\ n < 10 THEN <<DigitSeq[n + 1]>>
  ELSE Padded(n \div 10, width - 1) \o <<DigitSeq[(n % 10) + 1]>>

\* date.isoformat()
isoformat(date) ==
  Padded(date.y, 4) \o <<"-">> \o Padded(date.m, 2) \o <<"-">> \o Padded(date.d, 2)

\* datetime.strftime('%Y-%m-%d') of the C library: the year is not
\* zero-filled
strftime(date) ==
  Padded(date.y, 1) \o <<"-">> \o Padded(date.m, 2) \o <<"-">> \o Padded(date.d, 2)

\* self.date_patterns
date_patterns == <<
  \* r'(\d{1,2}/\d{1,2}/\d{4})'
  Grp(1, Cat(<<Rep(Ch(Digit), 1, 2), Ch({"/"}), Rep(Ch(Digit), 1, 2), Ch({"/"}), Rep(Ch(Digit), 4, 4)>>)),
  \* r'(\d{4}-\d{2}-\d{2})'
  Grp(1, Cat(<<Rep(Ch(Digit), 4, 4), Ch({"-"}), Rep(Ch(Digit), 2, 2), Ch({"-"}), Rep(Ch(Digit), 2, 2)>>)),
  \* r'(\w+\s+\d{1,2},?\s+\d{4})'
  Grp(1, Cat(<<Plus(Ch(WordCh)), Plus(Ch(WS)), Rep(Ch(Digit), 1, 2), Opt(Ch({","})), Plus(Ch(WS)), Rep(Ch(Digit), 4, 4)>>)),
  \* r'(\d{1,2}-\w{3}-\d{4})'
  Grp(1, Cat(<<Rep(Ch(Digit), 1, 2), Ch({"-"}), Rep(Ch(WordCh), 3, 3), Ch({"-"}), Rep(Ch(Digit), 4, 4)>>)) >>

\* re.IGNORECASE | re.DOTALL, which Pattern.search takes as the position
\* to start the search at
SearchPos == 18

RECURSIVE DateLoop(_, _, _, _)
\* for pattern in self.date_patterns: from pattern k on
DateLoop(patterns, k, text, today) ==
  IF k > Len(patterns) THEN None
  ELSE IF ReSearchFrom(date_patterns[patterns[k]], text, SearchPos, FALSE).ok
          /\ DateParse(Group(text,
                 ReSearchFrom(date_patterns[patterns[k]], text, SearchPos, FALSE), 1),
               today) # NoDate
  THEN isoformat(DateParse(Group(text,
                 ReSearchFrom(date_patterns[patterns[k]], text, SearchPos, FALSE), 1),
               today))
  ELSE DateLoop(patterns, k + 1, text, today)

\* PDFParser.extract_date_from_text, patterns being self.date_patterns (the
\* indices of the compiled patterns in their listed order)
extract_date_from_text(patterns, text, today) == DateLoop(patterns, 1, text, today)

\* r'Date Collected:\s*(\d{1,2}/\d{1,2}/\d{4})'
labcorp_date_pattern ==
  Cat(<<Lit(<<"D","a","t","e"," ","C","o","l","l","e","c","t","e","d",":">>), Star(Ch(WS)), Grp(1, Cat(<<Rep(Ch(Digit), 1, 2), Ch({"/"}), Rep(Ch(Digit), 1, 2), Ch({"/"}), Rep(Ch(Digit), 4, 4)>>))>>)

\* PDFParser.extract_labcorp_collection_date
extract_labcorp_collection_date(text, today) ==
  IF ReSearch(labcorp_date_pattern, text, TRUE).ok
     /\ DateParse(Group(text, ReSearch(labcorp_date_pattern, text, TRUE), 1), today) # NoDate
  THEN strftime(DateParse(Group(text, ReSearch(labcorp_date_pattern, text, TRUE), 1), today))
  ELSE None

(***************************************************************************)
(* Ordered panels and the table walk                                       *)
(***************************************************************************)

\* re.sub(r'\s+', ' ', s)
CollapseWS(s) == ReSubN(Plus(Ch(WS)), <<" ">>, s, 0, FALSE, -1)

\* r'([^()]+)\s*\([0-9]+\)'
panel_code_pattern ==
  Cat(<<Grp(1, Plus(NotCh({"(",")"}))), Star(Ch(WS)), Ch({"("}), Plus(Ch(Digit)), Ch({")"})>>)

\* r'\d+'
digits_pattern ==
  Plus(Ch(Digit))

\* extract_single_panel_from_text after the instructional check, m being
\* the match of panel_code_pattern
SinglePanelOfMatch(text, m) ==
  IF m.ok /\ Len(Strip(Group(text, m, 1))) > 5 THEN Strip(Group(text, m, 1))
  ELSE IF Len(text) > 10 /\ ~ReSearch(digits_pattern, text, FALSE).ok THEN Strip(text)
  ELSE None

\* PDFParser.extract_single_panel_from_text
extract_single_panel_from_text(text) ==
  IF ~Truthy(text) \/ Len(text) < 5 THEN None
  ELSE IF _is_instructional_text(text) THEN None
  ELSE SinglePanelOfMatch(text, ReMatch(panel_code_pattern, text, FALSE))

RECURSIVE PanelsOfParts(_, _)
\* for part in parts: from part k on
PanelsOfParts(parts, k) ==
  IF k > Len(parts) THEN <<>>
  ELSE (IF Truthy(extract_single_panel_from_text(Strip(parts[k])))
        THEN <<extract_single_panel_from_text(Strip(parts[k]))>> ELSE <<>>)
       \o PanelsOfParts(parts, k + 1)

\* PDFParser.extract_panels_from_ordered_line
extract_panels_from_ordered_line(line) ==
  IF Contains(line, <<";">>) THEN PanelsOfParts(Split(line, ";"), 1)
  ELSE IF Truthy(extract_single_panel_from_text(line))
  THEN <<extract_single_panel_from_text(line)>>
  ELSE <<>>

\* the line ends the 'Tests Ordered' section
EndsOrderedSection(line_lower) ==
  /\ AnyIn(<<<<"p","a","t","i","e","n","t">>, <<"s","p","e","c","i","m","e","n">>, <<"p","h","y","s","i","c","i","a","n">>, <<"t","e","s","t">>, <<"r","e","s","u","l","t">>>>,
           line_lower)
  /\ ~Contains(line_lower, <<"t","e","s","t">>) \/ Contains(line_lower, <<"r","e","s","u","l","t">>)

RECURSIVE OrderedSectionLoop(_, _, _)
\* the first loop of extract_ordered_panels from line i on
OrderedSectionLoop(lines, i, tests_ordered_section) ==
  IF i > Len(lines) THEN <<>>
  ELSE IF Contains(Lower(Strip(lines[i])), <<"t","e","s","t","s"," ","o","r","d","e","r","e","d">>)
          \/ Contains(Lower(Strip(lines[i])), <<"t","e","s","t"," ","o","r","d","e","r","e","d">>)
  THEN OrderedSectionLoop(lines, i + 1, TRUE)
  ELSE IF ~tests_ordered_section THEN OrderedSectionLoop(lines, i + 1, FALSE)
  ELSE IF EndsOrderedSection(Lower(Strip(lines[i]))) THEN <<>>
  ELSE extract_panels_from_ordered_line(Strip(lines[i]))
       \o OrderedSectionLoop(lines, i + 1, TRUE)

RECURSIVE SemicolonLoop(_, _)
\* the second loop of extract_ordered_panels from line i on
SemicolonLoop(lines, i) ==
  IF i > Len(lines) THEN <<>>
  ELSE (IF Contains(lines[i], <<";">>) /\ Contains(lines[i], <<"(">>)
           /\ Contains(lines[i], <<")">>)
        THEN extract_panels_from_ordered_line(lines[i]) ELSE <<>>)
       \o SemicolonLoop(lines, i + 1)

RECURSIVE Unique(_, _)
\* the elements of xs not in seen, each once, in first-seen order
Unique(xs, seen) ==
  IF xs = <<>> THEN <<>>
  ELSE IF \E k \in 1..Len(seen) : seen[k] = Head(xs) THEN Unique(Tail(xs), seen)
  ELSE <<Head(xs)>> \o Unique(Tail(xs), Append(seen, Head(xs)))

\* self.test_result_pattern
test_result_pattern ==
  \* r'\d+\.?\d*\s*(mg/dL|mmol/L|g/dL|%|x10E\d|uIU/mL)'
  Cat(<<Plus(Ch(Digit)), Opt(Ch({"."})), Star(Ch(Digit)), Star(Ch(WS)), Grp(1, Alt(<<Lit(<<"m","g","/","d","L">>), Lit(<<"m","m","o","l","/","L">>), Lit(<<"g","/","d","L">>), Ch({"%"}), Cat(<<Lit(<<"x","1","0","E">>), Ch(Digit)>>), Lit(<<"u","I","U","/","m","L">>)>>))>>)

\* a stripped line that the third loop of extract_ordered_panels takes for a
\* panel name
LooksLikePanel(line) ==
  /\ Len(line) > 10
  /\ ~ReSearch(test_result_pattern, line, FALSE).ok
  /\ AnyIn(<<<<"p","a","n","e","l">>, <<"c","b","c">>, <<"c","o","u","n","t">>, <<"m","e","t","a","b","o","l","i","c">>, <<"l","i","p","i","d">>,
             <<"h","e","p","a","t","i","t","i","s">>>>, Lower(line))

RECURSIVE PanelLikeLoop(_, _)
\* the third loop of extract_ordered_panels from line i on
PanelLikeLoop(lines, i) ==
  IF i > Len(lines) THEN <<>>
  ELSE (IF Strip(lines[i]) # <<>> /\ ~_is_instructional_text(Strip(lines[i]))
           /\ LooksLikePanel(Strip(lines[i]))
        THEN <<Strip(CollapseWS(Strip(lines[i])))>> ELSE <<>>)
       \o PanelLikeLoop(lines, i + 1)

\* extract_ordered_panels once the panels of the first two loops are known
OrderedPanelsOf(unique_panels, lines) ==
  IF unique_panels # <<>> THEN unique_panels
  ELSE Unique(PanelLikeLoop(lines, 1), <<>>)

\* PDFParser.extract_ordered_panels for the text of the page
extract_ordered_panels(page_text) ==
  IF ~Truthy(page_text) THEN <<>>
  ELSE OrderedPanelsOf(
         Unique(OrderedSectionLoop(Split(page_text, "\n"), 1, FALSE)
                  \o SemicolonLoop(Split(page_text, "\n"), 1), <<>>),
         Split(page_text, "\n"))

\* is_test_results_table without the test for patient information
IsTestResultsTableAnyInfo(headers) ==
  /\ headers # <<>>
  /\ \E i \in 1..Len(headers) : Contains(NormalizedHeader(headers[i]), <<"T","E","S","T">>)
  /\ \E i \in 1..Len(headers) : Contains(NormalizedHeader(headers[i]), <<"R","E","S","U","L","T">>)
  /\ ~(Len(headers) = 1 /\ Contains(NormalizedHeader(headers[1]), <<"T","E","S","T","S"," ","O","R","D","E","R","E","D">>))

\* PDFParser.is_test_results_table
is_test_results_table(headers) ==
  /\ headers # <<>>
  /\ \E i \in 1..Len(headers) : Contains(NormalizedHeader(headers[i]), <<"T","E","S","T">>)
  /\ \E i \in 1..Len(headers) : Contains(NormalizedHeader(headers[i]), <<"R","E","S","U","L","T">>)
  /\ ~AnyIn(<<<<"S","P","E","C","I","M","E","N">>, <<"P","A","T","I","E","N","T">>, <<"A","C","C","O","U","N","T">>, <<"C","O","N","T","R","O","L">>>>,
            Join([i \in 1..Len(headers) |-> NormalizedHeader(headers[i])], <<" ">>))
  /\ ~(Len(headers) = 1 /\ Contains(NormalizedHeader(headers[1]), <<"T","E","S","T","S"," ","O","R","D","E","R","E","D">>))

\* cell and cell.strip()
NonBlank(cell) == Truthy(cell) /\ Strip(cell) # <<>>

\* the first non-blank cell of the row, its whitespace collapsed (None when
\* every cell is blank)
FirstCell(row) ==
  IF \E i \in 1..Len(row) : NonBlank(row[i])
  THEN JoinWords(Strip(row[CHOOSE i \in 1..Len(row) :
         NonBlank(row[i]) /\ \A j \in 1..(i - 1) : ~NonBlank(row[j])]))
  ELSE None

RECURSIVE MatchPanelLoopAnyLength(_, _, _)
\* MatchPanelLoop without the test of the length of the cell
MatchPanelLoopAnyLength(first_cell, ordered_panels, k) ==
  IF k > Len(ordered_panels) THEN None
  ELSE IF Lower(first_cell) = Lower(ordered_panels[k]) THEN ordered_panels[k]
  ELSE IF Contains(Lower(first_cell), Lower(ordered_panels[k]))
          \/ Contains(Lower(ordered_panels[k]), Lower(first_cell))
  THEN ordered_panels[k]
  ELSE MatchPanelLoopAnyLength(first_cell, ordered_panels, k + 1)

RECURSIVE MatchPanelLoop(_, _, _)
\* for panel in ordered_panels: from panel k on
MatchPanelLoop(first_cell, ordered_panels, k) ==
  IF k > Len(ordered_panels) THEN None
  ELSE IF Lower(first_cell) = Lower(ordered_panels[k]) THEN ordered_panels[k]
  ELSE IF (Contains(Lower(first_cell), Lower(ordered_panels[k]))
           \/ Contains(Lower(ordered_panels[k]), Lower(first_cell)))
          /\ Len(first_cell) > 5
  THEN ordered_panels[k]
  ELSE MatchPanelLoop(first_cell, ordered_panels, k + 1)

\* PDFParser.match_row_to_ordered_panel (None: not a panel-header row)
match_row_to_ordered_panel(row, ordered_panels) ==
  IF row = <<>> \/ ordered_panels = <<>> THEN None
  ELSE IF ~Truthy(FirstCell(row)) THEN None
  ELSE IF \E i \in 2..Len(row) :
            Truthy(row[i]) /\ ReSearch(numeric_pattern, Strip(row[i]), FALSE).ok
  THEN None
  ELSE MatchPanelLoop(FirstCell(row), ordered_panels, 1)

\* a cell that marks the header row
IsHeaderCell(cell) ==
  Truthy(cell) /\ AnyIn(<<<<"t","e","s","t">>, <<"r","e","s","u","l","t">>, <<"r","e","f","e","r","e","n","c","e">>>>, Lower(cell))

\* header_row of process_table_with_ordered_panels, 1-based
HeaderRow(table) ==
  IF \E i \in 1..Len(table) : \E j \in 1..Len(table[i]) : IsHeaderCell(table[i][j])
  THEN CHOOSE i \in 1..Len(table) :
         /\ \E j \in 1..Len(table[i]) : IsHeaderCell(table[i][j])
         /\ \A k \in 1..(i - 1) : \A j \in 1..Len(table[k]) : ~IsHeaderCell(table[k][j])
  ELSE 1

\* the record test tagged with panel_name
WithPanel(test, panel_name) == [test EXCEPT !.panel_name = panel_name]

RECURSIVE TableRowsInferEach(_, _, _, _, _)
\* TableRows with an inferred panel tagging its own record only
TableRowsInferEach(table, i, headers, ordered_panels, current_panel) ==
  IF i > Len(table) THEN <<>>
  ELSE IF table[i] = <<>> \/ \A j \in 1..Len(table[i]) : ~NonBlank(table[i][j])
  THEN TableRowsInferEach(table, i + 1, headers, ordered_panels, current_panel)
  ELSE IF Truthy(match_row_to_ordered_panel(table[i], ordered_panels))
  THEN TableRowsInferEach(table, i + 1, headers, ordered_panels,
                          match_row_to_ordered_panel(table[i], ordered_panels))
  ELSE IF process_table_row(table[i], headers) = <<>>
  THEN TableRowsInferEach(table, i + 1, headers, ordered_panels, current_panel)
  ELSE IF Truthy(current_panel)
  THEN <<WithPanel(process_table_row(table[i], headers)[1], current_panel)>>
       \o TableRowsInferEach(table, i + 1, headers, ordered_panels, current_panel)
  ELSE <<WithPanel(process_table_row(table[i], headers)[1],
           infer_panel_from_test_name(process_table_row(table[i], headers)[1].name,
                                      ordered_panels))>>
       \o TableRowsInferEach(table, i + 1, headers, ordered_panels, current_panel)

RECURSIVE TableRows(_, _, _, _, _)
\* the loop over the data rows of process_table_with_ordered_panels from
\* row i on, with the current panel
TableRows(table, i, headers, ordered_panels, current_panel) ==
  IF i > Len(table) THEN <<>>
  ELSE IF table[i] = <<>> \/ \A j \in 1..Len(table[i]) : ~NonBlank(table[i][j])
  THEN TableRows(table, i + 1, headers, ordered_panels, current_panel)
  ELSE IF Truthy(match_row_to_ordered_panel(table[i], ordered_panels))
  THEN TableRows(table, i + 1, headers, ordered_panels,
                 match_row_to_ordered_panel(table[i], ordered_panels))
  ELSE IF process_table_row(table[i], headers) = <<>>
  THEN TableRows(table, i + 1, headers, ordered_panels, current_panel)
  ELSE IF Truthy(current_panel)
  THEN <<WithPanel(process_table_row(table[i], headers)[1], current_panel)>>
       \o TableRows(table, i + 1, headers, ordered_panels, current_panel)
  ELSE IF Truthy(infer_panel_from_test_name(process_table_row(table[i], headers)[1].name,
                                            ordered_panels))
  THEN <<WithPanel(process_table_row(table[i], headers)[1],
           infer_panel_from_test_name(process_table_row(table[i], headers)[1].name,
                                      ordered_panels))>>
       \o TableRows(table, i + 1, headers, ordered_panels,
            infer_panel_from_test_name(process_table_row(table[i], headers)[1].name,
                                       ordered_panels))
  ELSE <<process_table_row(table[i], headers)[1]>>
       \o TableRows(table, i + 1, headers, ordered_panels, current_panel)

\* PDFParser.process_table_with_ordered_panels
process_table_with_ordered_panels(table, ordered_panels) ==
  IF table = <<>> \/ Len(table) < 2 THEN <<>>
  ELSE IF ~is_test_results_table(table[HeaderRow(table)]) THEN <<>>
  ELSE TableRows(table, HeaderRow(table) + 1, table[HeaderRow(table)],
                 ordered_panels, None)

(***************************************************************************)
(* Vendor grammar and physician                                            *)
(***************************************************************************)

\* panel_header_patterns of extract_labcorp_tests
panel_header_patterns == <<
  \* r'^(Comp\. Metabolic Panel[^:\n]*)'
  Cat(<<Bol, Grp(1, Cat(<<Lit(<<"C","o","m","p","."," ","M","e","t","a","b","o","l","i","c"," ","P","a","n","e","l">>), Star(NotCh({":","\n"}))>>))>>),
  \* r'^(Lipid Panel[^:\n]*)'
  Cat(<<Bol, Grp(1, Cat(<<Lit(<<"L","i","p","i","d"," ","P","a","n","e","l">>), Star(NotCh({":","\n"}))>>))>>),
  \* r'^([A-Za-z][A-Za-z\s\.,/()]+Panel[^:\n]*)'
  Cat(<<Bol, Grp(1, Cat(<<Ch(UpperSet \cup LowerSet), Plus(Ch(UpperSet \cup LowerSet \cup WS \cup {".",",","/","(",")"})), Lit(<<"P","a","n","e","l">>), Star(NotCh({":","\n"}))>>))>>),
  \* r'^([A-Za-z][A-Za-z\s\.,/()]+\(\d+\))'
  Cat(<<Bol, Grp(1, Cat(<<Ch(UpperSet \cup LowerSet), Plus(Ch(UpperSet \cup LowerSet \cup WS \cup {".",",","/","(",")"})), Ch({"("}), Plus(Ch(Digit)), Ch({")"})>>))>>) >>

RECURSIVE PanelHeaderLoop(_, _)
\* for pattern in panel_header_patterns: from pattern k on; the panel the
\* line names, None when the line is no panel header
PanelHeaderLoop(line, k) ==
  IF k > Len(panel_header_patterns) THEN None
  ELSE IF ReMatch(panel_header_patterns[k], line, TRUE).ok
  THEN CollapseWS(Strip(Group(line, ReMatch(panel_header_patterns[k], line, TRUE), 1)))
  ELSE PanelHeaderLoop(line, k + 1)

\* the line is one of the column-header lines extract_labcorp_tests skips
IsHeaderLine(line) ==
  AnyIn(<<<<"t","e","s","t">>, <<"c","u","r","r","e","n","t"," ","r","e","s","u","l","t">>, <<"r","e","f","e","r","e","n","c","e"," ","i","n","t","e","r","v","a","l">>, <<"u","n","i","t","s">>>>,
        Lower(line))

RECURSIVE LabcorpLines(_, _, _)
\* the loop of extract_labcorp_tests from line i on, with the current panel
LabcorpLines(lines, i, current_panel) ==
  IF i > Len(lines) THEN <<>>
  ELSE IF Strip(lines[i]) = <<>> THEN LabcorpLines(lines, i + 1, current_panel)
  ELSE IF PanelHeaderLoop(Strip(lines[i]), 1) # None
  THEN LabcorpLines(lines, i + 1, PanelHeaderLoop(Strip(lines[i]), 1))
  ELSE IF IsHeaderLine(Strip(lines[i])) THEN LabcorpLines(lines, i + 1, current_panel)
  ELSE IF parse_labcorp_test_line(Strip(lines[i])) = <<>>
  THEN LabcorpLines(lines, i + 1, current_panel)
  ELSE <<WithPanel(parse_labcorp_test_line(Strip(lines[i]))[1],
                   IF Truthy(current_panel) THEN current_panel
                   ELSE <<"U","n","k","n","o","w","n"," ","P","a","n","e","l">>)>>
       \o LabcorpLines(lines, i + 1, current_panel)

\* PDFParser.extract_labcorp_tests
extract_labcorp_tests(text) == LabcorpLines(Split(text, "\n"), 1, None)

\* the line is a standalone panel header for extract_labcorp_panels
IsStandalonePanel(line) ==
  \/ ReMatch(
       Cat(<<Bol, Grp(1, Cat(<<Lit(<<"C","o","m","p","."," ","M","e","t","a","b","o","l","i","c"," ","P","a","n","e","l">>), Star(NotCh({"\n"})), Ch({"("}), Plus(Ch(Digit)), Ch({")"})>>)), Eol>>),
       line, TRUE).ok
  \/ ReMatch(
       Cat(<<Bol, Grp(1, Lit(<<"L","i","p","i","d"," ","P","a","n","e","l">>)), Eol>>),
       line, TRUE).ok
  \/ ReMatch(
       Cat(<<Bol, Grp(1, Cat(<<Lit(<<"C","B","C">>), Star(NotCh({"\n"})), Lit(<<"P","a","n","e","l">>), Star(NotCh({"\n"}))>>)), Eol>>),
       line, TRUE).ok
  \/ /\ ReMatch(
          Cat(<<Bol, Grp(1, Cat(<<Plus(Ch(UpperSet \cup LowerSet \cup WS)), Lit(<<"P","a","n","e","l">>)>>)), Eol>>),
          line, TRUE).ok
     /\ Contains(Lower(line), <<"p","a","n","e","l">>)
  \/ ReMatch(
       Cat(<<Bol, Grp(1, Cat(<<Lit(<<"A","p","o","l","i","p","o","p","r","o","t","e","i","n"," ">>), Ch(UpperSet)>>)), Eol>>),
       line, TRUE).ok

RECURSIVE LabcorpPanelLines(_, _, _)
\* the loop of extract_labcorp_panels from line i on; panel_names are the
\* names already taken
LabcorpPanelLines(lines, i, panel_names) ==
  IF i > Len(lines) THEN <<>>
  ELSE IF Len(Strip(lines[i])) < 5 \/ _is_instructional_text(Strip(lines[i]))
          \/ ~IsStandalonePanel(Strip(lines[i]))
  THEN LabcorpPanelLines(lines, i + 1, panel_names)
  ELSE IF /\ Truthy(CollapseWS(Strip(lines[i])))
          /\ CollapseWS(Strip(lines[i])) \notin panel_names
          /\ Len(CollapseWS(Strip(lines[i]))) > 3
          /\ ~AnyIn(<<<<"h","i","g","h">>, <<"l","o","w">>, <<"m","g","/","d","l">>, <<"o","r","d","e","r","e","d"," ","i","t","e","m","s">>>>,
                    Lower(CollapseWS(Strip(lines[i]))))
  THEN <<[name |-> CollapseWS(Strip(lines[i])), tests |-> <<>>]>>
       \o LabcorpPanelLines(lines, i + 1, panel_names \cup {CollapseWS(Strip(lines[i]))})
  ELSE LabcorpPanelLines(lines, i + 1, panel_names)

\* PDFParser.extract_labcorp_panels
extract_labcorp_panels(text) == LabcorpPanelLines(Split(text, "\n"), 1, {})

\* provider_pattern of extract_labcorp_provider
provider_pattern ==
  \* r'Ordering Physician:\s*([A-Z\s]+?)(?:\n|$)'
  Cat(<<Lit(<<"O","r","d","e","r","i","n","g"," ","P","h","y","s","i","c","i","a","n",":">>), Star(Ch(WS)), Grp(1, RepLazy(Ch(UpperSet \cup WS), 1, -1)), Alt(<<Ch({"\n"}), Eol>>)>>)

\* extract_labcorp_provider for the match m of provider_pattern
ProviderOfMatch(text, m) ==
  IF m.ok /\ Len(Strip(Group(text, m, 1))) > 1 THEN Strip(Group(text, m, 1)) ELSE None

\* PDFParser.extract_labcorp_provider
extract_labcorp_provider(text) ==
  ProviderOfMatch(text, ReSearch(provider_pattern, text, TRUE))

\* self.physician_patterns (compiled with re.IGNORECASE)
physician_patterns == <<
  \* r'(?:physician|doctor|dr\.?|md)\s*:?\s*([A-Z][a-z]+(?:\s+[A-Z][a-z]*)*)'
  Cat(<<Alt(<<Lit(<<"p","h","y","s","i","c","i","a","n">>), Lit(<<"d","o","c","t","o","r">>), Cat(<<Lit(<<"d","r">>), Opt(Ch({"."}))>>), Lit(<<"m","d">>)>>), Star(Ch(WS)), Opt(Ch({":"})), Star(Ch(WS)), Grp(1, Cat(<<Ch(UpperSet), Plus(Ch(LowerSet)), Star(Cat(<<Plus(Ch(WS)), Ch(UpperSet), Star(Ch(LowerSet))>>))>>))>>),
  \* r'([A-Z][a-z]+\s+[A-Z][a-z]+),?\s*(?:MD|M\.D\.)'
  Cat(<<Grp(1, Cat(<<Ch(UpperSet), Plus(Ch(LowerSet)), Plus(Ch(WS)), Ch(UpperSet), Plus(Ch(LowerSet))>>)), Opt(Ch({","})), Star(Ch(WS)), Ch({"M"}), Alt(<<Ch({"D"}), Lit(<<".","D",".">>)>>)>>),
  \* r'Dr\.?\s+([A-Z][a-z]+(?:\s+[A-Z][a-z]*)*)'
  Cat(<<Lit(<<"D","r">>), Opt(Ch({"."})), Plus(Ch(WS)), Grp(1, Cat(<<Ch(UpperSet), Plus(Ch(LowerSet)), Star(Cat(<<Plus(Ch(WS)), Ch(UpperSet), Star(Ch(LowerSet))>>))>>))>>) >>

\* re.IGNORECASE, which Pattern.search takes as the position to start the
\* search at and re.sub takes as the count of replacements
IgnoreCaseValue == 2

\* the clean-up of a matched physician name: five re.sub calls
CleanPhysician(physician) ==
  ReSubN(
    Cat(<<Bol, Lit(<<"D","r">>), Opt(Ch({"."})), Plus(Ch(WS))>>),
    <<>>,
    ReSubN(
      Cat(<<Plus(Ch(WS)), Lit(<<"D","r">>), Opt(Ch({"."})), Star(Ch(WS))>>),
      <<>>,
      ReSubN(
        Cat(<<Plus(Ch(WS)), Lit(<<"D","O">>), Star(NotCh({"\n"})), Eol>>),
        <<>>,
        ReSubN(
          Cat(<<Plus(Ch(WS)), Lit(<<"M","D">>), Star(NotCh({"\n"})), Eol>>),
          <<>>,
          ReSubN(
            Cat(<<Plus(Ch(WS)), Lit(<<"N","P","I">>), Star(NotCh({"\n"})), Eol>>),
            <<>>, physician, 0, FALSE, IgnoreCaseValue),
          0, FALSE, IgnoreCaseValue),
        0, FALSE, IgnoreCaseValue),
      0, FALSE, IgnoreCaseValue),
    0, FALSE, IgnoreCaseValue)

\* skip_values of extract_physician_from_text
skip_values == {<<"p","h","y","s","i","c","i","a","n">>, <<"p","r","o","v","i","d","e","r">>, <<"d","o","c","t","o","r">>, <<"n","p","i"," ","#">>,
                <<"p","h","y","s","i","c","i","a","n"," ","i","d">>, <<"n","p","i"," ","#"," ","p","h","y","s","i","c","i","a","n"," ","i","d">>}

RECURSIVE PhysicianLoop(_, _)
RECURSIVE PhysicianOfMatch(_, _, _)
\* for pattern in self.physician_patterns: from pattern k on
PhysicianLoop(text, k) ==
  IF k > Len(physician_patterns) THEN None
  ELSE IF ~ReSearchFrom(physician_patterns[k], text, IgnoreCaseValue, TRUE).ok
  THEN PhysicianLoop(text, k + 1)
  ELSE PhysicianOfMatch(
         CleanPhysician(Strip(Group(text,
           ReSearchFrom(physician_patterns[k], text, IgnoreCaseValue, TRUE), 1))),
         text, k)

\* the cleaned name is returned unless it is too short or a skip value
PhysicianOfMatch(physician, text, k) ==
  IF Len(physician) > 2 /\ Lower(physician) \notin skip_values THEN physician
  ELSE PhysicianLoop(text, k + 1)

\* PDFParser.extract_physician_from_text
extract_physician_from_text(text) == PhysicianLoop(text, 1)

(***************************************************************************)
(* Document Assembler.  A byte buffer `content` is represented by what the *)
(* two PDF readers make of it: empty (b''), whether pypdf.PdfReader and    *)
(* pdfplumber.open accept it, and its pages, each with the text both       *)
(* readers extract and the tables pdfplumber extracts.                     *)
(***************************************************************************)

RECURSIVE PagesText(_, _)
\* for page in pdf_reader.pages: text += page.extract_text() + "\n"
PagesText(pages, i) ==
  IF i > Len(pages) THEN <<>>
  ELSE pages[i].text \o <<"\n">> \o PagesText(pages, i + 1)

\* PDFParser.extract_text_from_pdf: the text of the pages, '' when the
\* reader raises
extract_text_from_pdf(content) ==
  IF content.pypdf_ok THEN PagesText(content.pages, 1) ELSE <<>>

\* the dict the parsing strategies return; the flowed-text strategies set no
\* 'ordered_panels' key, which reads as the empty list
ParsedDocument(date_collected, physician, tests, ordered_panels, panels) ==
  [date_collected |-> date_collected, physician |-> physician, tests |-> tests,
   ordered_panels |-> ordered_panels, panels |-> panels, errors |-> <<>>]

RECURSIVE TablesTests(_, _, _)
\* for table in tables: all_tests.extend(process_table_with_ordered_panels(..))
TablesTests(tables, k, ordered_panels) ==
  IF k > Len(tables) THEN <<>>
  ELSE process_table_with_ordered_panels(tables[k], ordered_panels)
       \o TablesTests(tables, k + 1, ordered_panels)

\* the tests one page adds to all_tests in parse_with_pdfplumber
PageTests(page, ordered_panels) ==
  IF page.tables # <<>> THEN TablesTests(page.tables, 1, ordered_panels)
  ELSE IF Truthy(page.text) THEN extract_tests_from_text(page.text, ordered_panels)
  ELSE <<>>

RECURSIVE AllTests(_, _, _)
\* for page_num, page in enumerate(pdf.pages): from page i on
AllTests(pages, i, ordered_panels) ==
  IF i > Len(pages) THEN <<>>
  ELSE PageTests(pages[i], ordered_panels) \o AllTests(pages, i + 1, ordered_panels)

\* parse_with_pdfplumber once the text pypdf extracted and the ordered
\* panels of the first page are known
PlumberDocument(patterns, pypdf_text, pages, ordered_panels, today) ==
  ParsedDocument(extract_date_from_text(patterns, pypdf_text, today),
                 extract_physician_from_text(pypdf_text),
                 AllTests(pages, 1, ordered_panels),
                 ordered_panels, <<>>)

\* PDFParser.parse_with_pdfplumber: <<the dict>>, or <<>> for the None it
\* returns when anything raised
parse_with_pdfplumber(patterns, content, today) ==
  IF ~content.plumber_ok THEN <<>>
  ELSE <<PlumberDocument(patterns, extract_text_from_pdf(content), content.pages,
                         IF content.pages # <<>>
                         THEN extract_ordered_panels(content.pages[1].text)
                         ELSE <<>>,
                         today)>>

\* PDFParser.parse_official_labcorp_report
parse_official_labcorp_report(text, today) ==
  ParsedDocument(extract_labcorp_collection_date(text, today),
                 extract_labcorp_provider(text),
                 extract_labcorp_tests(text),
                 <<>>,
                 extract_labcorp_panels(text))

\* is_official_labcorp of parse_labcorp_report
is_official_labcorp(text) ==
  \E pattern \in {<<"P","a","t","i","e","n","t"," ","R","e","p","o","r","t">>, <<"D","a","t","e"," ","C","o","l","l","e","c","t","e","d",":">>, <<"D","a","t","e"," ","R","e","c","e","i","v","e","d",":">>,
                  <<"O","r","d","e","r","i","n","g"," ","P","h","y","s","i","c","i","a","n",":">>, <<"R","e","f","e","r","e","n","c","e"," ","I","n","t","e","r","v","a","l">>} :
    Contains(text, pattern)

\* PDFParser.parse_labcorp_report
parse_labcorp_report(patterns, text, today) ==
  IF is_official_labcorp(text) THEN parse_official_labcorp_report(text, today)
  ELSE ParsedDocument(extract_date_from_text(patterns, text, today),
                      extract_physician_from_text(text),
                      extract_tests_from_text(text, <<>>),
                      <<>>, <<>>)

\* the least length of stripped text the flowed-text fallback accepts
MinTextLength == 50

\* TableStrategyYields without the look at the tests: any dict counts
TableStrategyYieldsAny(result) == result # <<>>

\* if result and result.get('tests'): the table strategy yielded a test
TableStrategyYields(result) == result # <<>> /\ result[1].tests # <<>>

\* TextTooShort without the length check
TextTooShortEmptyOnly(text) == ~Truthy(text)

\* if not text or len(text.strip()) < 50
TextTooShort(text) == ~Truthy(text) \/ Len(Strip(text)) < MinTextLength

\* NoSignal with the test of the date inverted
NoSignalDated(result) == result.tests = <<>> /\ Truthy(result.date_collected)

\* if not result.get('tests') and not result.get('date_collected')
NoSignal(result) == result.tests = <<>> /\ ~Truthy(result.date_collected)

\* what a call of parse_pdf_content ends with: a returned dict or a raised
\* exception with the parts of its message
NoOutcome == [kind |-> "none", msg |-> <<>>, doc |-> <<>>]

ReturnOf(result) == [kind |-> "returned", msg |-> <<>>, doc |-> <<result>>]

\* raise ValueError(...) before the try block
RaiseValueError(msg) == [kind |-> "ValueError", msg |-> <<msg>>, doc |-> <<>>]

\* except Exception as e: raise ValueError(f"PDF parsing failed: {str(e)}")
ParsingFailed(msg) ==
  [kind |-> "ValueError", msg |-> <<"PDF parsing failed: ", msg>>, doc |-> <<>>]

(***************************************************************************)
(* Import router: catalog matching                                         *)
(***************************************************************************)

RECURSIVE LikeAt(_, _, _, _)
\* SQL LIKE of the text s from position j against the pattern p from
\* position i: '%' stands for any run of characters, '_' for any one
LikeAt(p, i, s, j) ==
  IF i > Len(p) THEN j > Len(s)
  ELSE IF p[i] = "%" THEN \E k \in j..(Len(s) + 1) : LikeAt(p, i + 1, s, k)
  ELSE /\ j <= Len(s)
       /\ p[i] = "_" \/ p[i] = s[j]
       /\ LikeAt(p, i + 1, s, j + 1)

\* Lab.name.ilike(test_name): lower(name) LIKE lower(test_name)
Ilike(name, test_name) == LikeAt(Lower(test_name), 1, Lower(name), 1)

\* the characters the smart match allows after the test name
SmartDelimiters == {"(", ")", ",", "-"}

\* the body of `for lab in all_labs`: the lab is taken
SmartMatch(lab_name_lower, test_name_lower) ==
  /\ StartsWith(lab_name_lower, test_name_lower)
  /\ \/ Len(lab_name_lower) = Len(test_name_lower)
     \/ lab_name_lower[Len(test_name_lower) + 1] \in SmartDelimiters
     \/ /\ lab_name_lower[Len(test_name_lower) + 1] = " "
        /\ Len(lab_name_lower) > Len(test_name_lower) + 1
        /\ lab_name_lower[Len(test_name_lower) + 2] \in SmartDelimiters

\* the first lab of the catalog that passes, or None
FirstLab(labs, Passes(_)) ==
  IF \E k \in DOMAIN labs : Passes(labs[k])
  THEN labs[CHOOSE k \in DOMAIN labs :
              Passes(labs[k]) /\ \A h \in 1..(k - 1) : ~Passes(labs[h])]
  ELSE None

\* the exact match, and the smart match if there is none
FindLab(labs, test_name) ==
  LET exact(lab) == Ilike(lab, test_name)
      smart(lab) == SmartMatch(Lower(lab), Lower(test_name))
  IN IF FirstLab(labs, exact) # None THEN FirstLab(labs, exact)
     ELSE FirstLab(labs, smart)

\* upload_pdf: the lab_test of a parsed test
UploadLabTest(labs, name) ==
  IF Truthy(name) THEN FindLab(labs, Strip(name)) ELSE None

\* confirm_pdf_import: the lab_test of a parsed test before one is created
ConfirmLabTest(labs, name) == FindLab(labs, Strip(name))

(***************************************************************************)
(* Import router: the import log and the lab results.  The database is a   *)
(* record of the rows of pdf_import_logs (logs), of lab_results (results)  *)
(* and the names of labs (labs), each in the order of insertion.           *)
(***************************************************************************)

\* the row of pdf_import_logs with the id (<<>> when there is none)
LogOf(database, import_id) ==
  SelectSeq(database.logs, LAMBDA log : log.id = import_id)

\* the id the next row of pdf_import_logs gets
NextLogId(database) ==
  IF database.logs = <<>> THEN 1
  ELSE 1 + (CHOOSE m \in {database.logs[i].id : i \in DOMAIN database.logs} :
              \A i \in DOMAIN database.logs : database.logs[i].id <= m)

\* upload_pdf with a file of the hash, parsed_data being what
\* parse_pdf_content returns for it (<<>> when it raises): the database
\* after the call
upload_pdf(database, file_hash, parsed_data) ==
  IF \E i \in DOMAIN database.logs : database.logs[i].file_hash = file_hash
  THEN database
  ELSE IF parsed_data = <<>> THEN database
  ELSE [database EXCEPT !.logs = Append(@,
          [id |-> NextLogId(database), file_hash |-> file_hash, status |-> "pending",
           total_tests_found |-> Len(parsed_data[1].tests), tests_imported |-> 0,
           parsed_data |-> parsed_data[1]])]

\* parsed_data['tests'][test_index] for a test_index below len(tests): a
\* negative one counts from the end
TestAt(tests, test_index) ==
  IF test_index < 0 THEN tests[Len(tests) + test_index + 1] ELSE tests[test_index + 1]

\* the lab of a selected test: the catalog match, else a new Lab of its name
LabOfTest(labs, name) ==
  IF ConfirmLabTest(labs, name) # None THEN ConfirmLabTest(labs, name) ELSE name

RECURSIVE ConfirmLoop(_, _, _, _)
\* for test_index in confirmation.selected_tests: from the k-th on
ConfirmLoop(database, log, selected_tests, k) ==
  IF k > Len(selected_tests) THEN database
  ELSE IF selected_tests[k] >= Len(log.parsed_data.tests)
  THEN ConfirmLoop(database, log, selected_tests, k + 1)
  ELSE ConfirmLoop(
         [database EXCEPT
            !.labs = IF ConfirmLabTest(@, TestAt(log.parsed_data.tests, selected_tests[k])) # None
                     THEN @
                     ELSE Append(@, TestAt(log.parsed_data.tests, selected_tests[k])),
            !.results = Append(@,
               [lab |-> LabOfTest(database.labs, TestAt(log.parsed_data.tests, selected_tests[k])),
                pdf_import_id |-> log.id,
                test_index |-> selected_tests[k]])],
         log, selected_tests, k + 1)

\* the rows of lab_results of the import
ResultsOf(database, import_id) ==
  SelectSeq(database.results, LAMBDA r : r.pdf_import_id = import_id)

\* confirm_pdf_import: the database after the call
confirm_pdf_import(database, import_id, selected_tests) ==
  IF LogOf(database, import_id) = <<>> THEN database
  ELSE LET after == ConfirmLoop(database, LogOf(database, import_id)[1], selected_tests, 1)
       IN [after EXCEPT !.logs =
             [i \in DOMAIN @ |->
                IF @[i].id = import_id
                THEN [@[i] EXCEPT !.status = "completed",
                                  !.tests_imported =
                                     Len(after.results) - Len(database.results)]
                ELSE @[i]]]

RECURSIVE confirm_batch_import(_, _, _)
\* confirm_batch_import: for confirmation in individual_confirmations, from
\* the k-th on
confirm_batch_import(database, individual_confirmations, k) ==
  IF k > Len(individual_confirmations) THEN database
  ELSE confirm_batch_import(
         confirm_pdf_import(database, individual_confirmations[k].import_id,
                            individual_confirmations[k].selected_tests),
         individual_confirmations, k + 1)

\* cancel_pdf_import: the database after the call
cancel_pdf_import(database, import_id) ==
  IF LogOf(database, import_id) = <<>> THEN database
  ELSE IF LogOf(database, import_id)[1].status # "pending" THEN database
  ELSE [database EXCEPT !.logs = SelectSeq(@, LAMBDA log : log.id # import_id)]

\* delete_pdf_import: the database after the call
delete_pdf_import(database, import_id) ==
  IF LogOf(database, import_id) = <<>> THEN database
  ELSE [database EXCEPT
          !.results = SelectSeq(@, LAMBDA r : r.pdf_import_id # import_id),
          !.logs = SelectSeq(@, LAMBDA log : log.id # import_id)]

(***************************************************************************)
(* State                                                                   *)
(***************************************************************************)

VARIABLES
  self,    \* the attributes of the PDFParser instance (set by __init__)
  call,    \* the parse_pdf_content calls: position and local variables
  probe,   \* a direct call of one method: [fn, arg, out, done]
  today,   \* the date of the system clock, which dateutil's parse reads
  db       \* the database: the rows of pdf_import_logs, lab_results and labs

vars == <<self, call, probe, today, db>>

\* the database with no row
NoRows == [logs |-> <<>>, results |-> <<>>, labs |-> <<>>]

\* no method is being called directly
NoProbe == [fn |-> "none", arg |-> <<>>, out |-> <<>>, done |-> TRUE]

InitSelf == [date_patterns |-> <<1, 2, 3, 4>>]

\* a call slot nobody has called yet
Idle == [pc |-> "idle", content |-> <<>>, ran |-> <<>>, result |-> <<>>,
         text |-> <<>>, outcome |-> NoOutcome]

\* the clock when the program starts
StartDay == [y |-> 2026, m |-> 11, d |-> 3]

\* the day after t
NextDay(t) ==
  IF t.d < DaysIn(t.y, t.m) THEN [t EXCEPT !.d = t.d + 1]
  ELSE IF t.m < 12 THEN [t EXCEPT !.m = t.m + 1, !.d = 1]
  ELSE [y |-> t.y + 1, m |-> 1, d |-> 1]

RECURSIVE DaysAfter(_, _)
\* the n-th day after t
DaysAfter(t, n) == IF n = 0 THEN t ELSE DaysAfter(NextDay(t), n - 1)

(***************************************************************************)
(* The byte buffers                                                        *)
(***************************************************************************)

\* bound: the most pages a document has
MaxPages == 2

\* bound: the days the clock advances
MaxDays == 1

TextPage(text) == [text |-> text, tables |-> <<>>]

\* one generic result line (shorter than MinTextLength)
PageTest == TextPage(<<"G","l","u","c","o","s","e"," ","8","7"," ","m","g","/","d","L"," ","7","0","-","9","9">>)

\* a sentence with an ISO date and no result
PageDate == TextPage(<<"S","p","e","c","i","m","e","n"," ","c","o","l","l","e","c","t","e","d"," ","2","0","2","3","-","0","1","-","0","5"," ","a","t"," ","t","h","e"," ","m","a","i","n"," ","l","a","b","o","r","a","t","o","r","y"," ","s","i","t","e">>)

\* the heading of the vendor's report
PageVendorHeading == TextPage(<<"P","a","t","i","e","n","t"," ","R","e","p","o","r","t">>)

\* the vendor's collection date and one line of its results grammar
PageVendor == TextPage(<<"D","a","t","e"," ","C","o","l","l","e","c","t","e","d",":"," ","0","1","/","0","5","/","2","0","2","3","\n","G","l","u","c","o","s","e"," ","0","1"," ","8","7"," ","9","0","*"," ","0","8","/","1","9","/","2","0","2","2"," ","m","g","/","d","L"," ","7","0","-","9","9">>)

\* a page footer that dateutil reads as a month and a year
PageFooter == TextPage(<<"L","a","b","o","r","a","t","o","r","y"," ","r","e","s","u","l","t","s",","," ","p","a","g","e"," ","1"," ","o","f"," ","2"," ","2","0","2","3"," ","f","o","r"," ","t","h","e"," ","p","a","t","i","e","n","t"," ","n","a","m","e","d"," ","a","b","o","v","e">>)

\* a page with a results table
PageTable ==
  [text |-> <<"T","E","S","T"," ","R","E","S","U","L","T"," ","F","L","A","G"," ","R","E","F","E","R","E","N","C","E"," ","I","N","T","E","R","V","A","L"," ","U","N","I","T"," ","G","l","u","c","o","s","e"," ","8","7"," ","H"," ","7","0","-","9","9"," ","m","g","/","d","L">>,
   tables |-> << << <<<<"T","E","S","T">>, <<"R","E","S","U","L","T">>, <<"F","L","A","G">>, <<"R","E","F","E","R","E","N","C","E"," ","I","N","T","E","R","V","A","L">>, <<"U","N","I","T">>>>,
                    <<<<"G","l","u","c","o","s","e">>, <<"8","7">>, <<"H">>, <<"7","0","-","9","9">>, <<"m","g","/","d","L">>>> >> >>]

\* a page whose only table holds patient information
PageInfo ==
  [text |-> <<"P","a","t","i","e","n","t"," ","N","a","m","e"," ","D","O","B">>,
   tables |-> << << <<<<"P","a","t","i","e","n","t"," ","N","a","m","e">>, <<"D","O","B">>>>,
                    <<<<"D","o","e",","," ","J","a","n","e">>, <<"0","1","/","0","2","/","1","9","8","0">>>> >> >>]

Pages == {PageTest, PageDate, PageVendorHeading, PageVendor,
          PageFooter, PageTable, PageInfo}

\* b''
EmptyContent == [empty |-> TRUE, pypdf_ok |-> FALSE, plumber_ok |-> FALSE, pages |-> <<>>]

\* a buffer both readers accept
Readable(pages) == [empty |-> FALSE, pypdf_ok |-> TRUE, plumber_ok |-> TRUE, pages |-> pages]

\* the buffers one reader or both reject: pypdf.PdfReader raises
\* PdfReadError, pdfplumber.open raises
Unreadable ==
  {[empty |-> FALSE, pypdf_ok |-> a, plumber_ok |-> b, pages |-> <<p>>] :
     a \in BOOLEAN, b \in BOOLEAN, p \in {PageTest, PageTable, PageDate}}
  \ {Readable(<<p>>) : p \in Pages}

\* the documents of up to MaxPages pages
Documents == {Readable(ps) : ps \in UNION {[1..n -> Pages] : n \in 0..MaxPages}}

Contents == {EmptyContent} \cup Unreadable \cup Documents

\* the buffers parsed more than once
RepeatContents == {EmptyContent} \cup {Readable(<<p>>) : p \in {PageTest, PageFooter, PageVendor}}

(***************************************************************************)
(* parse_pdf_content, one step per call it makes                           *)
(***************************************************************************)

\* await parser.parse_pdf_content(content): a caller starts a call in slot c
\* (the router makes one call per PDFParser it constructs); empty content
\* raises before the try block
Begin(c, content) ==
  /\ call[c].pc = "idle"
  /\ call' = [call EXCEPT ![c] =
       IF content.empty
       THEN [Idle EXCEPT !.pc = "done", !.content = content,
                         !.outcome = RaiseValueError("PDF content is empty")]
       ELSE [Idle EXCEPT !.pc = "plumber", !.content = content]]
  /\ UNCHANGED <<self, probe, today, db>>

\* the call's state after result = self.parse_with_pdfplumber(content)
AfterPlumber(f, result) ==
  IF TableStrategyYields(result)
  THEN [f EXCEPT !.pc = "done", !.result = result, !.outcome = ReturnOf(result[1]),
                 !.ran = Append(f.ran, "parse_with_pdfplumber")]
  ELSE [f EXCEPT !.pc = "extract", !.result = result,
                 !.ran = Append(f.ran, "parse_with_pdfplumber")]

\* result = self.parse_with_pdfplumber(content); return it if it has tests
Plumber(c) ==
  /\ call[c].pc = "plumber"
  /\ call' = [call EXCEPT ![c] =
       AfterPlumber(call[c], parse_with_pdfplumber(self.date_patterns, call[c].content, today))]
  /\ UNCHANGED <<self, probe, today, db>>

\* the call's state after text = self.extract_text_from_pdf(content)
AfterExtract(f, text) ==
  IF TextTooShort(text)
  THEN [f EXCEPT !.pc = "done", !.text = text,
                 !.ran = Append(f.ran, "extract_text_from_pdf"),
                 !.outcome = ParsingFailed("PDF appears to be empty or contains no readable text")]
  ELSE [f EXCEPT !.pc = "grammar", !.text = text,
                 !.ran = Append(f.ran, "extract_text_from_pdf")]

\* text = self.extract_text_from_pdf(content) and the length check
ExtractText(c) ==
  /\ call[c].pc = "extract"
  /\ call' = [call EXCEPT ![c] = AfterExtract(call[c], extract_text_from_pdf(call[c].content))]
  /\ UNCHANGED <<self, probe, today, db>>

\* the call's state after result = self.parse_labcorp_report(text)
AfterGrammar(f, result) ==
  IF NoSignal(result)
  THEN [f EXCEPT !.pc = "done", !.result = <<result>>,
                 !.ran = Append(f.ran, "parse_labcorp_report"),
                 !.outcome = ParsingFailed("No lab results or date found - this may not be a compatible lab report")]
  ELSE [f EXCEPT !.pc = "done", !.result = <<result>>,
                 !.ran = Append(f.ran, "parse_labcorp_report"),
                 !.outcome = ReturnOf(result)]

\* result = self.parse_labcorp_report(text) and the check for any signal
Grammar(c) ==
  /\ call[c].pc = "grammar"
  /\ call' = [call EXCEPT ![c] =
       AfterGrammar(call[c], parse_labcorp_report(self.date_patterns, call[c].text, today))]
  /\ UNCHANGED <<self, probe, today, db>>

\* midnight passes
Tick ==
  /\ today # DaysAfter(StartDay, MaxDays)
  /\ today' = NextDay(today)
  /\ UNCHANGED <<self, call, probe, db>>

\* one caller
Init ==
  /\ self = InitSelf
  /\ call = [c \in {1} |-> Idle]
  /\ probe = NoProbe
  /\ today = StartDay
  /\ db = NoRows

Next ==
  \/ \E c \in DOMAIN call : \E content \in Contents : Begin(c, content)
  \/ \E c \in DOMAIN call : Plumber(c)
  \/ \E c \in DOMAIN call : ExtractText(c)
  \/ \E c \in DOMAIN call : Grammar(c)
  \/ Tick

Spec == Init /\ [][Next]_vars

(***************************************************************************)
(* SpecRepeat: two callers each parse a buffer of RepeatContents while the  *)
(* clock advances.                                                         *)
(***************************************************************************)

InitRepeat ==
  /\ self = InitSelf
  /\ call = [c \in {1, 2} |-> Idle]
  /\ probe = NoProbe
  /\ today = StartDay
  /\ db = NoRows

NextRepeat ==
  \/ \E c \in DOMAIN call : \E content \in RepeatContents : Begin(c, content)
  \/ \E c \in DOMAIN call : Plumber(c)
  \/ \E c \in DOMAIN call : ExtractText(c)
  \/ \E c \in DOMAIN call : Grammar(c)
  \/ Tick

SpecRepeat == InitRepeat /\ [][NextRepeat]_vars

(***************************************************************************)
(* SpecValue: the Value Normalizer's functions applied to every text over  *)
(* ValueAlphabet of length at most MaxLen, and to the examples of the      *)
(* documentation.                                                          *)
(***************************************************************************)

MaxLen == 4

ValueAlphabet == {"1", "5", ".", "-", "<", ">", " ", "N"}

ValueExamples == {
  <<"5",".","0","-","1","0",".","0">>,
  <<"<","5",".","0">>,
  <<">","1","0",".","0">>,
  <<"<","0",".","5">>,
  <<"N","e","g","a","t","i","v","e">>,
  <<"7","0"," ","-"," ","9","9">>
  }

ValueTexts ==
  UNION {[1..n -> ValueAlphabet] : n \in 0..MaxLen} \cup ValueExamples

InitValue ==
  /\ self = InitSelf
  /\ call = [c \in {1} |-> Idle]
  /\ today = StartDay
  /\ db = NoRows
  /\ \E f \in {"parse_reference_range", "parse_numeric_result"} :
       \E t \in ValueTexts :
         probe = [fn |-> f, arg |-> t, out |-> <<>>, done |-> FALSE]

\* r = parser.parse_reference_range(arg)
CallParseReferenceRange ==
  /\ probe.fn = "parse_reference_range" /\ ~probe.done
  /\ probe' = [probe EXCEPT !.out = parse_reference_range(probe.arg), !.done = TRUE]
  /\ UNCHANGED <<self, call, today, db>>

\* r = parser.parse_numeric_result(arg)
CallParseNumericResult ==
  /\ probe.fn = "parse_numeric_result" /\ ~probe.done
  /\ probe' = [probe EXCEPT !.out = parse_numeric_result(probe.arg), !.done = TRUE]
  /\ UNCHANGED <<self, call, today, db>>

NextValue == CallParseReferenceRange \/ CallParseNumericResult

SpecValue == InitValue /\ [][NextValue]_vars

(***************************************************************************)
(* SpecRecord: the four record producers applied to every row of up to     *)
(* MaxCells cells of RowCells (as a table row with and without a header    *)
(* row, and joined by blanks as a line of text), and to LineExamples.      *)
(***************************************************************************)

MaxCells == 3

RowCells == {<<"G","l","u","c","o","s","e">>, <<"8","7">>, <<"<","5",".","0">>, <<"m","g","/","d","L">>, <<"7","0","-","9","9">>, <<"N","e","g","a","t","i","v","e">>, <<"0","1">>}

RowHeaders == <<<<"T","E","S","T">>, <<"R","E","S","U","L","T">>, <<"U","N","I","T","S">>, <<"R","E","F","E","R","E","N","C","E"," ","I","N","T","E","R","V","A","L">>>>

Rows == UNION {[1..n -> RowCells] : n \in 1..MaxCells}

LineExamples == {
  <<"G","l","u","c","o","s","e"," ","0","1"," ","8","7"," ","9","0","*"," ","0","8","/","1","9","/","2","0","2","2"," ","m","g","/","d","L"," ","7","0","-","9","9">>,
  <<"H","e","m","o","g","l","o","b","i","n"," ","A","1","c"," ","0","1"," ","5",".","4"," ","5",".","6"," ","0","8","/","1","9","/","2","0","2","2"," ","%"," ","4",".","8","-","5",".","6">>,
  <<"e","G","F","R"," ","9","5"," ","m","L","/","m","i","n">>,
  <<"H","I","V"," ","S","c","r","e","e","n"," ","N","o","n"," ","R","e","a","c","t","i","v","e">>
  }

InitRecord ==
  /\ self = InitSelf
  /\ call = [c \in {1} |-> Idle]
  /\ today = StartDay
  /\ db = NoRows
  /\ \/ \E f \in {"process_row_with_headers", "process_row_heuristic"} :
          \E row \in Rows :
            probe = [fn |-> f, arg |-> row, out |-> <<>>, done |-> FALSE]
     \/ \E f \in {"extract_tests_from_text", "extract_labcorp_tests"} :
          \E line \in {Join(row, <<" ">>) : row \in Rows} \cup LineExamples :
            probe = [fn |-> f, arg |-> line, out |-> <<>>, done |-> FALSE]

\* tests = [parser.process_table_row(row, headers)] for a table with a
\* header row: process_row_with_headers
CallProcessRowWithHeaders ==
  /\ probe.fn = "process_row_with_headers" /\ ~probe.done
  /\ probe' = [probe EXCEPT !.out = process_table_row(probe.arg, RowHeaders), !.done = TRUE]
  /\ UNCHANGED <<self, call, today, db>>

\* tests = [parser.process_table_row(row, None)]: process_row_heuristic
CallProcessRowHeuristic ==
  /\ probe.fn = "process_row_heuristic" /\ ~probe.done
  /\ probe' = [probe EXCEPT !.out = process_table_row(probe.arg, <<>>), !.done = TRUE]
  /\ UNCHANGED <<self, call, today, db>>

\* tests = parser.extract_tests_from_text(line, [])
CallExtractTestsFromText ==
  /\ probe.fn = "extract_tests_from_text" /\ ~probe.done
  /\ probe' = [probe EXCEPT !.out = extract_tests_from_text(probe.arg, <<>>), !.done = TRUE]
  /\ UNCHANGED <<self, call, today, db>>

\* tests = parser.extract_labcorp_tests(line)
CallExtractLabcorpTests ==
  /\ probe.fn = "extract_labcorp_tests" /\ ~probe.done
  /\ probe' = [probe EXCEPT !.out = extract_labcorp_tests(probe.arg), !.done = TRUE]
  /\ UNCHANGED <<self, call, today, db>>

NextRecord ==
  \/ CallProcessRowWithHeaders
  \/ CallProcessRowHeuristic
  \/ CallExtractTestsFromText
  \/ CallExtractLabcorpTests

SpecRecord == InitRecord /\ [][NextRecord]_vars


(***************************************************************************)
(* SpecQualitative: is_qualitative_result and                              *)
(* standardize_qualitative_result applied to every text of up to MaxWords  *)
(* of QualWords, joined by one blank.                                      *)
(***************************************************************************)

\* bound: the most words of a result text
MaxWords == 2

QualWords == {
  <<"N","o","n"," ","R","e","a","c","t","i","v","e">>, <<"N","O","T"," ","D","E","T","E","C","T","E","D">>, <<"N","e","g","a","t","i","v","e">>, <<"a","b","s","e","n","t">>,
  <<"R","e","a","c","t","i","v","e">>, <<"D","e","t","e","c","t","e","d">>, <<"P","O","S","I","T","I","V","E">>, <<"p","r","e","s","e","n","t">>,
  <<"B","o","r","d","e","r","l","i","n","e">>, <<"I","n","c","o","n","c","l","u","s","i","v","e">>, <<"I","N","D","E","T","E","R","M","I","N","A","T","E">>,
  <<"N","o","r","m","a","l">>, <<" ","T","r","a","c","e"," "," ","a","m","o","u","n","t","s"," ">>, <<"8","7">>, <<" ">>
  }

QualTexts == {Join(ws, <<" ">>) : ws \in UNION {[1..n -> QualWords] : n \in 0..MaxWords}}

InitQualitative ==
  /\ self = InitSelf
  /\ call = [c \in {1} |-> Idle]
  /\ today = StartDay
  /\ db = NoRows
  /\ \E f \in {"is_qualitative_result", "standardize_qualitative_result"} :
       \E t \in QualTexts :
         probe = [fn |-> f, arg |-> t, out |-> <<>>, done |-> FALSE]

\* q = parser.is_qualitative_result(arg)
CallIsQualitativeResult ==
  /\ probe.fn = "is_qualitative_result" /\ ~probe.done
  /\ probe' = [probe EXCEPT !.out = is_qualitative_result(probe.arg), !.done = TRUE]
  /\ UNCHANGED <<self, call, today, db>>

\* t = parser.standardize_qualitative_result(arg)
CallStandardizeQualitativeResult ==
  /\ probe.fn = "standardize_qualitative_result" /\ ~probe.done
  /\ probe' = [probe EXCEPT !.out = standardize_qualitative_result(probe.arg),
                            !.done = TRUE]
  /\ UNCHANGED <<self, call, today, db>>

NextQualitative == CallIsQualitativeResult \/ CallStandardizeQualitativeResult

SpecQualitative == InitQualitative /\ [][NextQualitative]_vars

(***************************************************************************)
(* SpecFallback: apply_unit_mappings and apply_reference_range_mappings    *)
(* applied to every test name of FallbackNames with every unit of          *)
(* DocumentUnits and every range of DocumentRanges.                        *)
(***************************************************************************)

FallbackNames == {
  <<"e","G","F","R">>, <<"E","G","F","R"," ","I","f"," ","N","o","n","A","f","r","i","c","n"," ","A","m">>, <<"B","U","N","/","C","r","e","a","t","i","n","i","n","e"," ","R","a","t","i","o">>, <<"B","u","n","/","C","r","e","a">>,
  <<"A","/","G"," ","R","a","t","i","o">>, <<"G","l","o","b","u","l","i","n",","," ","T","o","t","a","l">>, <<"T","o","t","a","l"," ","G","l","o","b","u","l","i","n">>, <<"G","l","o","b","u","l","i","n">>,
  <<"G","l","u","c","o","s","e">>, <<"P","r","o","t","e","i","n",","," ","T","o","t","a","l">>
  }

\* the unit a caller passes: None, '' or the text of the document
DocumentUnits == {
  None, <<>>, <<"m","g","/","d","L">>, <<"%">>, <<"m","L","/","m","i","n","/","1",".","7","3">>, <<"r","a","t","i","o">>,
  <<"m","g","/","d","L"," ","p","a","g","e"," ","1"," ","o","f"," ","2">>, <<"p","a","g","e"," ","1"," ","o","f"," ","2">>, <<" ","3"," ","o","f"," ","4">>, <<" ">>
  }

\* the texts parse_reference_range is given by the callers
ReferenceTexts == {<<>>, <<"7","0","-","9","9">>, <<">","5","9">>, <<"<","5",".","0">>, <<"N","o","t"," ","E","s","t","a","b",".">>, <<" "," ">>, <<"0",".","0","-","0",".","4">>}

\* the range a caller passes: a parsed text or the absent range
DocumentRanges == {parse_reference_range(t) : t \in ReferenceTexts} \cup {NoRange}

InitFallback ==
  /\ self = InitSelf
  /\ call = [c \in {1} |-> Idle]
  /\ today = StartDay
  /\ db = NoRows
  /\ \E n \in FallbackNames :
       \/ \E u \in DocumentUnits :
            probe = [fn |-> "apply_unit_mappings", arg |-> <<n, u>>,
                     out |-> <<>>, done |-> FALSE]
       \/ \E r \in DocumentRanges :
            probe = [fn |-> "apply_reference_range_mappings", arg |-> <<n, r>>,
                     out |-> <<>>, done |-> FALSE]

\* unit = parser.apply_unit_mappings(test_name, unit)
CallApplyUnitMappings ==
  /\ probe.fn = "apply_unit_mappings" /\ ~probe.done
  /\ probe' = [probe EXCEPT !.out = apply_unit_mappings(probe.arg[1], probe.arg[2]),
                            !.done = TRUE]
  /\ UNCHANGED <<self, call, today, db>>

\* r = parser.apply_reference_range_mappings(test_name, reference_range_obj)
CallApplyReferenceRangeMappings ==
  /\ probe.fn = "apply_reference_range_mappings" /\ ~probe.done
  /\ probe' = [probe EXCEPT
                 !.out = apply_reference_range_mappings(probe.arg[1], probe.arg[2]),
                 !.done = TRUE]
  /\ UNCHANGED <<self, call, today, db>>

NextFallback == CallApplyUnitMappings \/ CallApplyReferenceRangeMappings

SpecFallback == InitFallback /\ [][NextFallback]_vars

(***************************************************************************)
(* SpecOrdered: extract_panels_from_ordered_line applied to every line of  *)
(* up to MaxSegments segments of PanelSegments, separated by "; ", with    *)
(* and without a ';' after the last one.                                   *)
(***************************************************************************)

\* bound: the most segments of a "Tests Ordered" line
MaxSegments == 2

PanelSegments == {
  <<"C","B","C"," ","W","i","t","h"," ","D","i","f","f","e","r","e","n","t","i","a","l","/","P","l","a","t","e","l","e","t"," ","(","0","0","5","0","0","9",")">>,
  <<"C","o","m","p","."," ","M","e","t","a","b","o","l","i","c"," ","P","a","n","e","l"," ","(","1","4",")"," ","(","3","2","2","0","0","0",")">>,
  <<"L","i","p","i","d"," ","P","a","n","e","l"," ","(","3","0","3","7","5","6",")">>,
  <<"H","e","m","o","g","l","o","b","i","n"," ","A","1","c"," ","(","0","0","1","4","5","3",")">>,
  <<"H","e","p","a","t","i","t","i","s"," ","P","a","n","e","l"," ","(","4",")">>,
  <<"T","h","y","r","o","i","d"," ","P","a","n","e","l"," ","W","i","t","h"," ","T","S","H">>,
  <<"T","S","H"," ","(","0","0","4","2","5","9",")">>,
  <<"U","r","i","n","a","l","y","s","i","s"," ","(","R","o","u","t","i","n","e",")"," ","(","0","0","3","7","7","2",")">>
  }

OrderedLines ==
  {Join(segs, <<";"," ">>) \o end :
     segs \in UNION {[1..n -> PanelSegments] : n \in 1..MaxSegments},
     end \in {<<>>, <<";">>}}

InitOrdered ==
  /\ self = InitSelf
  /\ call = [c \in {1} |-> Idle]
  /\ today = StartDay
  /\ db = NoRows
  /\ \E line \in OrderedLines :
       probe = [fn |-> "extract_panels_from_ordered_line", arg |-> line,
                out |-> <<>>, done |-> FALSE]

\* panels_in_line = self.extract_panels_from_ordered_line(line)
CallExtractPanelsFromOrderedLine ==
  /\ probe.fn = "extract_panels_from_ordered_line" /\ ~probe.done
  /\ probe' = [probe EXCEPT !.out = extract_panels_from_ordered_line(probe.arg),
                            !.done = TRUE]
  /\ UNCHANGED <<self, call, today, db>>

NextOrdered == CallExtractPanelsFromOrderedLine

SpecOrdered == InitOrdered /\ [][NextOrdered]_vars

(***************************************************************************)
(* SpecTable: process_table_with_ordered_panels applied to the tables of   *)
(* ExampleTables with each list of OrderedPanelLists.                      *)
(***************************************************************************)

\* the columns of the documented table: header and the cell of the row
ExampleColumns == <<
  [header |-> <<"T","E","S","T">>, cell |-> <<"G","l","u","c","o","s","e">>],
  [header |-> <<"R","E","S","U","L","T">>, cell |-> <<"8","7">>],
  [header |-> <<"F","L","A","G">>, cell |-> <<"H">>],
  [header |-> <<"R","E","F","E","R","E","N","C","E"," ","I","N","T","E","R","V","A","L">>, cell |-> <<"7","0","-","9","9">>],
  [header |-> <<"U","N","I","T">>, cell |-> <<"m","g","/","d","L">>]
  >>

\* the orders of the columns
ColumnOrders ==
  {p \in [DOMAIN ExampleColumns -> DOMAIN ExampleColumns] :
     \A i, j \in DOMAIN p : p[i] = p[j] => i = j}

\* the documented table with its columns in the order p: header row, row
PermutedTable(p) ==
  <<[i \in DOMAIN p |-> ExampleColumns[p[i]].header],
    [i \in DOMAIN p |-> ExampleColumns[p[i]].cell]>>

PermutedTables == {PermutedTable(p) : p \in ColumnOrders}

\* the header row of a table with a LAB and a FLAG column
FlagHeaders ==
  <<<<"T","E","S","T">>, <<"L","A","B">>, <<"R","E","S","U","L","T">>, <<"F","L","A","G">>, <<"U","N","I","T","S">>, <<"R","E","F","E","R","E","N","C","E"," ","I","N","T","E","R","V","A","L">>>>

\* the cells a row has under each header of FlagHeaders
FlagCells == <<
  {<<"G","l","u","c","o","s","e">>, <<>>},
  {<<"0","1">>, <<>>},
  {<<"8","7">>, <<>>},
  {<<"H">>, <<"H","i","g","h">>, <<>>},
  {<<"m","g","/","d","L">>, <<>>},
  {<<"7","0","-","9","9">>, <<>>}
  >>

FlagRows == {row \in [DOMAIN FlagHeaders -> UNION {FlagCells[i] : i \in DOMAIN FlagCells}] :
               \A i \in DOMAIN row : row[i] \in FlagCells[i]}

FlagTables == {<<FlagHeaders, row>> : row \in FlagRows}

\* bound: the most data rows of a table of ArtifactTables
MaxRows == 2

ArtifactHeaders == <<<<"T","E","S","T">>, <<"R","E","S","U","L","T">>, <<"U","N","I","T","S">>>>

\* data rows: count rows printed with the result "01", and ordinary rows
ArtifactRows == {
  <<<<"C","o","m","m","e","n","t">>, <<"0","1">>, <<>>>>,
  <<<<"I","m","m","a","t","u","r","e"," ","G","r","a","n","u","l","o","c","y","t","e","s">>, <<" ","0","1"," ">>, <<"x","1","0","E","3","/","u","L">>>>,
  <<<<"N","R","B","C">>, <<"0","1">>, <<>>>>,
  <<<<>>, <<"C","o","m","m","e","n","t",":">>, <<"0","1">>>>,
  <<<<"I","m","m","a","t","u","r","e"," ","C","e","l","l","s">>, <<"0",".","1">>, <<>>>>,
  <<<<"W","B","C">>, <<"0","1">>, <<>>>>,
  <<<<"G","l","u","c","o","s","e">>, <<"8","7">>, <<"m","g","/","d","L">>>>
  }

ArtifactTables ==
  {<<ArtifactHeaders>> \o rows : rows \in UNION {[1..n -> ArtifactRows] : n \in 1..MaxRows}}

ExampleTables == PermutedTables \cup FlagTables \cup ArtifactTables

OrderedPanelLists ==
  {<<>>, <<<<"C","o","m","p","."," ","M","e","t","a","b","o","l","i","c"," ","P","a","n","e","l"," ","(","1","4",")">>, <<"C","B","C"," ","W","i","t","h"," ","D","i","f","f","e","r","e","n","t","i","a","l">>>>}

InitTable ==
  /\ self = InitSelf
  /\ call = [c \in {1} |-> Idle]
  /\ today = StartDay
  /\ db = NoRows
  /\ \E table \in ExampleTables : \E ordered_panels \in OrderedPanelLists :
       probe = [fn |-> "process_table_with_ordered_panels",
                arg |-> <<table, ordered_panels>>, out |-> <<>>, done |-> FALSE]

\* table_tests = self.process_table_with_ordered_panels(table, ordered_panels)
CallProcessTableWithOrderedPanels ==
  /\ probe.fn = "process_table_with_ordered_panels" /\ ~probe.done
  /\ probe' = [probe EXCEPT
                 !.out = process_table_with_ordered_panels(probe.arg[1], probe.arg[2]),
                 !.done = TRUE]
  /\ UNCHANGED <<self, call, today, db>>

NextTable == CallProcessTableWithOrderedPanels

SpecTable == InitTable /\ [][NextTable]_vars

(***************************************************************************)
(* SpecFlag: extract_labcorp_tests called on two lines that differ only in *)
(* the flag text printed after the result, for every pair of FlagTexts and *)
(* every line of FlagLines.                                                *)
(***************************************************************************)

\* the flag texts, <<>> for a line without a flag
FlagTexts == {<<>>, <<"H">>, <<"L">>, <<"A">>, <<"H","i","g","h">>, <<"L","o","w">>, <<"A","b","n","o","r","m","a","l">>}

\* the lines: the text up to the result and the text after the flag
FlagLines == {
  [upto |-> <<"G","l","u","c","o","s","e"," ","0","1"," ","8","7">>, after |-> <<" ","9","0","*"," ","0","8","/","1","9","/","2","0","2","2"," ","m","g","/","d","L"," ","7","0","-","9","9">>],
  [upto |-> <<"C","h","o","l","e","s","t","e","r","o","l",","," ","T","o","t","a","l"," ","0","1"," ","1","8","0">>, after |-> <<" ","1","7","0"," ","0","8","/","1","9","/","2","0","2","2"," ","m","g","/","d","L"," ","1","0","0","-","1","9","9">>],
  [upto |-> <<"G","l","u","c","o","s","e"," ","8","7">>, after |-> <<" ","m","g","/","d","L">>],
  [upto |-> <<"e","G","F","R"," ","9","5">>, after |-> <<" ","m","L","/","m","i","n">>]
  }

\* the line l printed with the flag text flag
Flagged(l, flag) ==
  l.upto \o (IF flag = <<>> THEN <<>> ELSE <<" ">> \o flag) \o l.after

InitFlag ==
  /\ self = InitSelf
  /\ call = [c \in {1} |-> Idle]
  /\ today = StartDay
  /\ db = NoRows
  /\ \E l \in FlagLines : \E f1, f2 \in FlagTexts :
       probe = [fn |-> "extract_labcorp_tests",
                arg |-> <<Flagged(l, f1), Flagged(l, f2)>>,
                out |-> <<>>, done |-> FALSE]

\* tests = parser.extract_labcorp_tests(text), for the first line and then
\* for the second
CallExtractLabcorpTestsOfPair ==
  /\ probe.fn = "extract_labcorp_tests" /\ ~probe.done
  /\ probe' = [probe EXCEPT
                 !.out = Append(@, extract_labcorp_tests(probe.arg[Len(probe.out) + 1])),
                 !.done = (Len(probe.out) + 1 = Len(probe.arg))]
  /\ UNCHANGED <<self, call, today, db>>

NextFlag == CallExtractLabcorpTestsOfPair

SpecFlag == InitFlag /\ [][NextFlag]_vars

(***************************************************************************)
(* SpecInfer: infer_panel_from_test_name applied to every name of          *)
(* InferNames with every list of up to MaxPanels panels of                  *)
(* InferPanels.                                                            *)
(***************************************************************************)

\* bound: the most ordered panels of a report
MaxPanels == 2

\* test names as the callers pass them (blanks joined), and the empty name
InferNames == {
  <<"G","l","u","c","o","s","e">>, <<"B","U","N","/","C","r","e","a","t","i","n","i","n","e"," ","R","a","t","i","o">>, <<"C","a","r","b","o","n"," ","D","i","o","x","i","d","e",","," ","T","o","t","a","l">>, <<"C","a","l","c","i","u","m">>,
  <<"W","B","C">>, <<"H","e","m","o","g","l","o","b","i","n">>, <<"P","l","a","t","e","l","e","t","s">>, <<"H","e","m","o","g","l","o","b","i","n"," ","A","1","c">>,
  <<"C","h","o","l","e","s","t","e","r","o","l",","," ","T","o","t","a","l">>, <<"T","S","H">>, <<"V","i","t","a","m","i","n"," ","B","1","2">>, <<"T","e","s","t","o","s","t","e","r","o","n","e">>,
  <<"H","e","p"," ","B"," ","S","u","r","f","a","c","e"," ","A","b">>, <<>>
  }

InferPanels == {
  <<"C","o","m","p","."," ","M","e","t","a","b","o","l","i","c"," ","P","a","n","e","l"," ","(","1","4",")">>, <<"B","a","s","i","c"," ","M","e","t","a","b","o","l","i","c"," ","P","a","n","e","l"," ","(","8",")">>,
  <<"C","B","C"," ","W","i","t","h"," ","D","i","f","f","e","r","e","n","t","i","a","l">>, <<"C","o","m","p","l","e","t","e"," ","B","l","o","o","d"," ","C","o","u","n","t">>,
  <<"C","B","C"," ","a","n","d"," ","M","e","t","a","b","o","l","i","c"," ","P","a","n","e","l">>, <<"L","i","p","i","d"," ","P","a","n","e","l">>, <<"H","e","m","o","g","l","o","b","i","n"," ","A","1","c">>,
  <<"T","h","y","r","o","i","d"," ","P","a","n","e","l"," ","W","i","t","h"," ","T","S","H">>, <<"U","r","i","n","a","l","y","s","i","s">>
  }

InferPanelLists == UNION {[1..n -> InferPanels] : n \in 0..MaxPanels}

InitInfer ==
  /\ self = InitSelf
  /\ call = [c \in {1} |-> Idle]
  /\ today = StartDay
  /\ db = NoRows
  /\ \E test_name \in InferNames : \E ordered_panels \in InferPanelLists :
       probe = [fn |-> "infer_panel_from_test_name",
                arg |-> <<test_name, ordered_panels>>, out |-> <<>>, done |-> FALSE]

\* inferred_panel = self.infer_panel_from_test_name(name, ordered_panels)
CallInferPanelFromTestName ==
  /\ probe.fn = "infer_panel_from_test_name" /\ ~probe.done
  /\ probe' = [probe EXCEPT
                 !.out = infer_panel_from_test_name(probe.arg[1], probe.arg[2]),
                 !.done = TRUE]
  /\ UNCHANGED <<self, call, today, db>>

NextInfer == CallInferPanelFromTestName

SpecInfer == InitInfer /\ [][NextInfer]_vars

(***************************************************************************)
(* SpecNames: the three record strategies applied to up to MaxRows rows    *)
(* or lines, each built around a candidate name of CandidateNames.         *)
(***************************************************************************)

\* candidate names: test names, a two-letter name, instructional texts and
\* names holding an artifact word
CandidateNames == {
  <<"G","l","u","c","o","s","e">>, <<"C","a","l","c","i","u","m">>, <<"V","i","t","a","m","i","n"," ","D">>, <<"H","b">>,
  <<"H","i","g","h">>, <<"L","o","w"," ","R","i","s","k">>, <<"R","e","s","u","l","t">>, <<"P","l","e","a","s","e"," ","n","o","t","e">>, <<"N","o","r","m","a","l"," ","S","a","l","i","n","e">>
  }

\* the header row of the tables
NameHeaders == <<<<"T","E","S","T">>, <<"R","E","S","U","L","T">>, <<"U","N","I","T","S">>>>

\* a table row, a line of flowed text and a line of the vendor's report
\* with the candidate name
RowOfName(name) == <<name, <<"8","7">>, <<"m","g","/","d","L">>>>
TextLineOfName(name) == name \o <<" ","8","7"," ","m","g","/","d","L"," ","7","0","-","9","9">>
VendorLineOfName(name) == name \o <<" ","0","1"," ","8","7"," ","9","0","*"," ","0","8","/","1","9","/","2","0","2","2"," ","m","g","/","d","L"," ","7","0","-","9","9">>

NameLists == UNION {[1..n -> CandidateNames] : n \in 0..MaxRows}

\* the table with one row for each name
TableOfNames(names) == <<NameHeaders>> \o [i \in DOMAIN names |-> RowOfName(names[i])]

InitNames ==
  /\ self = InitSelf
  /\ call = [c \in {1} |-> Idle]
  /\ today = StartDay
  /\ db = NoRows
  /\ \E names \in NameLists :
     \E fn \in {"process_table_with_ordered_panels", "extract_tests_from_text",
                "extract_labcorp_tests"} :
       probe = [fn |-> fn, arg |-> names, out |-> <<>>, done |-> FALSE]

\* tests = self.process_table_with_ordered_panels(table, ordered_panels)
CallTableOfNames ==
  /\ probe.fn = "process_table_with_ordered_panels" /\ ~probe.done
  /\ probe' = [probe EXCEPT
                 !.out = process_table_with_ordered_panels(TableOfNames(probe.arg), <<>>),
                 !.done = TRUE]
  /\ UNCHANGED <<self, call, today, db>>

\* text_tests = self.extract_tests_from_text(page_text, ordered_panels)
CallTextOfNames ==
  /\ probe.fn = "extract_tests_from_text" /\ ~probe.done
  /\ probe' = [probe EXCEPT
                 !.out = extract_tests_from_text(
                           Join([i \in DOMAIN probe.arg |-> TextLineOfName(probe.arg[i])],
                                <<"\n">>), <<>>),
                 !.done = TRUE]
  /\ UNCHANGED <<self, call, today, db>>

\* tests = self.extract_labcorp_tests(text)
CallVendorTextOfNames ==
  /\ probe.fn = "extract_labcorp_tests" /\ ~probe.done
  /\ probe' = [probe EXCEPT
                 !.out = extract_labcorp_tests(
                           Join([i \in DOMAIN probe.arg |-> VendorLineOfName(probe.arg[i])],
                                <<"\n">>)),
                 !.done = TRUE]
  /\ UNCHANGED <<self, call, today, db>>

NextNames == CallTableOfNames \/ CallTextOfNames \/ CallVendorTextOfNames

SpecNames == InitNames /\ [][NextNames]_vars

(***************************************************************************)
(* SpecCatalog: the catalog match of upload_pdf and confirm_pdf_import     *)
(* for each name of ParsedNames against each catalog of up to MaxLabs      *)
(* entries of CatalogNames.                                                *)
(***************************************************************************)

\* bound: the most entries of the catalog
MaxLabs == 2

ParsedNames == {
  <<"H","e","m","o","g","l","o","b","i","n">>, <<"h","e","m","o","g","l","o","b","i","n"," ","a","1","c">>, <<"T","S","H">>, <<"G","l","u","c","o","s","e">>, <<"V","i","t","a","m","i","n"," ","D">>,
  <<"M","o","n","o","c","y","t","e","s">>, <<"M","o","n","o","c","y","t","e","s"," ","%">>, <<"S","o","d","i","u","m">>
  }

CatalogNames == {
  <<"H","e","m","o","g","l","o","b","i","n">>, <<"H","e","m","o","g","l","o","b","i","n"," ","A","1","c">>, <<"T","S","H"," ","(","d","e","t","a","i","l","s",")">>, <<"G","l","u","c","o","s","e",","," ","S","e","r","u","m">>,
  <<"G","l","u","c","o","s","e","-","F","a","s","t","i","n","g">>, <<"V","i","t","a","m","i","n"," ","D"," ","-"," ","2","5"," ","H","y","d","r","o","x","y">>, <<"V","i","t","a","m","i","n"," ","D","3">>,
  <<"M","o","n","o","c","y","t","e","s"," ","(","A","b","s","o","l","u","t","e",")">>, <<"F","r","e","e"," ","T","S","H">>
  }

\* catalogs: the labs in the order of the query, no name twice
Catalogs ==
  {labs \in UNION {[1..n -> CatalogNames] : n \in 0..MaxLabs} :
     \A i, j \in DOMAIN labs : labs[i] = labs[j] => i = j}

InitCatalog ==
  /\ self = InitSelf
  /\ call = [c \in {1} |-> Idle]
  /\ today = StartDay
  /\ db = NoRows
  /\ \E name \in ParsedNames : \E labs \in Catalogs :
     \E fn \in {"upload_pdf", "confirm_pdf_import"} :
       probe = [fn |-> fn, arg |-> <<name, labs>>, out |-> <<>>, done |-> FALSE]

\* upload_pdf: the match of one parsed test
CallUploadLabTest ==
  /\ probe.fn = "upload_pdf" /\ ~probe.done
  /\ probe' = [probe EXCEPT !.out = UploadLabTest(probe.arg[2], probe.arg[1]),
                            !.done = TRUE]
  /\ UNCHANGED <<self, call, today, db>>

\* confirm_pdf_import: the match of one selected test
CallConfirmLabTest ==
  /\ probe.fn = "confirm_pdf_import" /\ ~probe.done
  /\ probe' = [probe EXCEPT !.out = ConfirmLabTest(probe.arg[2], probe.arg[1]),
                            !.done = TRUE]
  /\ UNCHANGED <<self, call, today, db>>

NextCatalog == CallUploadLabTest \/ CallConfirmLabTest

SpecCatalog == InitCatalog /\ [][NextCatalog]_vars

(***************************************************************************)
(* SpecHeader: process_table_with_ordered_panels applied to every table of *)
(* up to MaxRows + 1 rows of HeaderTableRows.                              *)
(***************************************************************************)

\* title, header and data rows
HeaderTableRows == {
  <<<<"C","h","e","m","i","s","t","r","y">>>>,
  <<<<"T","E","S","T">>, <<"R","E","S","U","L","T">>, <<"U","N","I","T","S">>>>,
  <<<<"P","a","t","i","e","n","t"," ","T","e","s","t">>, <<"R","e","s","u","l","t">>, <<"U","n","i","t","s">>>>,
  <<<<"C","o","m","p","o","n","e","n","t">>, <<"R","e","s","u","l","t">>, <<"U","n","i","t","s">>>>,
  <<<<"G","l","u","c","o","s","e">>, <<"8","7">>, <<"m","g","/","d","L">>>>,
  <<<<"C","a","l","c","i","u","m">>, <<"9",".","5">>, <<"m","g","/","d","L">>>>,
  <<<<"T","e","s","t","o","s","t","e","r","o","n","e">>, <<"5","0","0">>, <<"n","g","/","d","L">>>>
  }

HeaderTables == UNION {[1..n -> HeaderTableRows] : n \in 1..(MaxRows + 1)}

InitHeader ==
  /\ self = InitSelf
  /\ call = [c \in {1} |-> Idle]
  /\ today = StartDay
  /\ db = NoRows
  /\ \E table \in HeaderTables :
       probe = [fn |-> "process_table_with_ordered_panels",
                arg |-> <<table, <<>>>>, out |-> <<>>, done |-> FALSE]

NextHeader == CallProcessTableWithOrderedPanels

SpecHeader == InitHeader /\ [][NextHeader]_vars

(***************************************************************************)
(* SpecPanelRow: process_table_with_ordered_panels applied to a table of   *)
(* a header row, one row of PanelRows and a data row, with every list of   *)
(* up to MaxPanels panels of RowPanels.                                    *)
(***************************************************************************)

\* rows that name a panel, in full, in part or next to other cells, and
\* rows that do not
PanelRows == {
  <<<<"L","i","p","i","d"," ","P","a","n","e","l">>, <<>>, <<>>>>,
  <<<<"L","I","P","I","D"," "," ","P","A","N","E","L">>, <<>>, <<>>>>,
  <<<<"L","i","p","i","d">>, <<>>, <<>>>>,
  <<<<"c","b","c">>, <<>>, <<>>>>,
  <<<<"L","i","p","i","d"," ","P","a","n","e","l"," ","R","e","s","u","l","t","s">>, <<>>, <<>>>>,
  <<<<"L","i","p","i","d"," ","P","a","n","e","l">>, <<"5">>, <<>>>>,
  <<<<"L","i","p","i","d"," ","P","a","n","e","l">>, <<>>, <<"F","a","s","t","i","n","g">>>>,
  <<<<>>, <<"L","i","p","i","d"," ","P","a","n","e","l">>, <<>>>>,
  <<<<"T","h","y","r","o","i","d">>, <<>>, <<>>>>,
  <<<<"I","r","o","n"," ","S","t","u","d","i","e","s">>, <<>>, <<>>>>,
  <<<<"G","l","u","c","o","s","e">>, <<"8","7">>, <<"m","g","/","d","L">>>>
  }

RowPanels == {
  <<"L","i","p","i","d"," ","P","a","n","e","l">>, <<"C","B","C"," ","W","i","t","h"," ","D","i","f","f","e","r","e","n","t","i","a","l">>, <<"T","h","y","r","o","i","d"," ","P","a","n","e","l"," ","W","i","t","h"," ","T","S","H">>, <<"C","B","C">>
  }

\* a data row whose name no panel type knows
PlainRow == <<<<"F","e","r","r","i","t","i","n">>, <<"5","5">>, <<"n","g","/","m","L">>>>

InitPanelRow ==
  /\ self = InitSelf
  /\ call = [c \in {1} |-> Idle]
  /\ today = StartDay
  /\ db = NoRows
  /\ \E row \in PanelRows :
     \E ordered_panels \in UNION {[1..n -> RowPanels] : n \in 0..MaxPanels} :
       probe = [fn |-> "process_table_with_ordered_panels",
                arg |-> <<<<NameHeaders, row, PlainRow>>, ordered_panels>>,
                out |-> <<>>, done |-> FALSE]

NextPanelRow == CallProcessTableWithOrderedPanels

SpecPanelRow == InitPanelRow /\ [][NextPanelRow]_vars

(***************************************************************************)
(* SpecWalk: process_table_with_ordered_panels applied to every table of a *)
(* header row and up to MaxRows + 1 rows of WalkRows, with each list of    *)
(* WalkPanelLists.                                                         *)
(***************************************************************************)

\* a panel-header row and data rows: names of two panel types and one
\* that no panel type knows
WalkRows == {
  <<<<"L","i","p","i","d"," ","P","a","n","e","l">>, <<>>, <<>>>>,
  <<<<"G","l","u","c","o","s","e">>, <<"8","7">>, <<"m","g","/","d","L">>>>,
  <<<<"W","B","C">>, <<"5",".","0">>, <<"x","1","0","E","3","/","u","L">>>>,
  <<<<"F","e","r","r","i","t","i","n">>, <<"5","5">>, <<"n","g","/","m","L">>>>
  }

WalkPanelLists == {
  <<>>,
  <<<<"C","o","m","p","."," ","M","e","t","a","b","o","l","i","c"," ","P","a","n","e","l"," ","(","1","4",")">>, <<"C","B","C"," ","W","i","t","h"," ","D","i","f","f","e","r","e","n","t","i","a","l">>, <<"L","i","p","i","d"," ","P","a","n","e","l">>>>
  }

WalkTables ==
  {<<NameHeaders>> \o rows : rows \in UNION {[1..n -> WalkRows] : n \in 1..(MaxRows + 1)}}

InitWalk ==
  /\ self = InitSelf
  /\ call = [c \in {1} |-> Idle]
  /\ today = StartDay
  /\ db = NoRows
  /\ \E table \in WalkTables : \E ordered_panels \in WalkPanelLists :
       probe = [fn |-> "process_table_with_ordered_panels",
                arg |-> <<table, ordered_panels>>, out |-> <<>>, done |-> FALSE]

NextWalk == CallProcessTableWithOrderedPanels

SpecWalk == InitWalk /\ [][NextWalk]_vars

(***************************************************************************)
(* SpecPages: parse_with_pdfplumber applied to every document of up to     *)
(* MaxPages pages of PanelPages.                                           *)
(***************************************************************************)

\* the line of the ordered panels
OrderedLine == <<"L","i","p","i","d"," ","P","a","n","e","l"," ","(","3","0","3","7","5","6",")",";"," ","C","B","C"," ","W","i","t","h"," ","D","i","f","f","e","r","e","n","t","i","a","l"," ","(","0","0","5","0","0","9",")",";">>

\* tables: one opened by a panel-header row, one whose record infers its
\* panel, one whose record has no panel of its own, one of patient
\* information, one without test and result headers
TablePanelRow ==
  <<NameHeaders, <<<<"L","i","p","i","d"," ","P","a","n","e","l">>, <<>>, <<>>>>,
    <<<<"C","h","o","l","e","s","t","e","r","o","l",","," ","T","o","t","a","l">>, <<"1","8","0">>, <<"m","g","/","d","L">>>>>>
TableInferred == <<NameHeaders, <<<<"C","h","o","l","e","s","t","e","r","o","l",","," ","T","o","t","a","l">>, <<"1","8","0">>, <<"m","g","/","d","L">>>>>>
TablePlain == <<NameHeaders, PlainRow>>
TableInfo == <<<<<<"P","a","t","i","e","n","t"," ","N","a","m","e">>, <<"D","O","B">>>>, <<<<"D","o","e",","," ","J","a","n","e">>, <<"0","1","/","0","2","/","1","9","8","0">>>>>>
TableNoHeaders == <<<<<<"N","a","m","e">>, <<"V","a","l","u","e">>>>, <<<<"S","o","d","i","u","m">>, <<"1","4","0">>>>>>

PanelPages == {
  [text |-> OrderedLine, tables |-> <<>>],
  [text |-> OrderedLine, tables |-> <<TablePanelRow, TablePlain>>],
  [text |-> OrderedLine, tables |-> <<TableInferred, TablePlain>>],
  [text |-> OrderedLine, tables |-> <<TablePlain>>],
  [text |-> <<"P","a","t","i","e","n","t"," ","N","a","m","e"," ","D","O","B","\n","G","l","u","c","o","s","e"," ","8","7"," ","m","g","/","d","L"," ","7","0","-","9","9">>, tables |-> <<TableInfo>>],
  [text |-> <<"N","a","m","e"," ","V","a","l","u","e","\n","C","a","l","c","i","u","m"," ","9",".","5"," ","m","g","/","d","L"," ","8",".","5","-","1","0",".","5">>, tables |-> <<TableNoHeaders>>],
  [text |-> <<"C","o","m","p","."," ","M","e","t","a","b","o","l","i","c"," ","P","a","n","e","l"," ","(","1","4",")"," ","(","3","2","2","0","0","0",")",";"," ","L","i","p","i","d"," ","P","a","n","e","l"," ","(","3","0","3","7","5","6",")",";">>, tables |-> <<>>],
  PageTest
  }

PanelDocuments == {Readable(ps) : ps \in UNION {[1..n -> PanelPages] : n \in 1..MaxPages}}

InitPages ==
  /\ self = InitSelf
  /\ call = [c \in {1} |-> Idle]
  /\ today = StartDay
  /\ db = NoRows
  /\ \E content \in PanelDocuments :
       probe = [fn |-> "parse_with_pdfplumber", arg |-> content,
                out |-> <<>>, done |-> FALSE]

\* result = self.parse_with_pdfplumber(content)
CallParseWithPdfplumber ==
  /\ probe.fn = "parse_with_pdfplumber" /\ ~probe.done
  /\ probe' = [probe EXCEPT
                 !.out = parse_with_pdfplumber(self.date_patterns, probe.arg, today),
                 !.done = TRUE]
  /\ UNCHANGED <<self, call, today, db>>

NextPages == CallParseWithPdfplumber

SpecPages == InitPages /\ [][NextPages]_vars

(***************************************************************************)
(* SpecDate: extract_date_from_text applied to every text of DateTexts.    *)
(***************************************************************************)

\* what stands before the date: nothing, less and more than SearchPos
\* characters
DatePrefixes == {<<>>, <<"C","o","l","l","e","c","t","e","d",":"," ">>, <<"S","p","e","c","i","m","e","n"," ","c","o","l","l","e","c","t","e","d"," ","o","n"," ">>}

\* a date for each of the date patterns, a date no calendar holds, no date
DateWords == {
  <<"0","1","/","0","5","/","2","0","2","3">>, <<"2","0","2","3","-","0","1","-","0","5">>, <<"J","a","n","u","a","r","y"," ","5",","," ","2","0","2","3">>, <<"5","-","J","a","n","-","2","0","2","3">>,
  <<"1","3","/","4","5","/","2","0","2","3">>, <<"p","e","n","d","i","n","g">>
  }

\* what follows: nothing, a date of the second pattern, one of the first
DateSuffixes == {<<>>, <<" ","r","e","c","e","i","v","e","d"," ","2","0","2","2","-","0","3","-","0","4">>, <<" ","r","e","c","e","i","v","e","d"," ","0","2","/","0","3","/","2","0","2","1">>}

DateTexts ==
  {pre \o word \o suf : pre \in DatePrefixes, word \in DateWords, suf \in DateSuffixes}

InitDate ==
  /\ self = InitSelf
  /\ call = [c \in {1} |-> Idle]
  /\ today = StartDay
  /\ db = NoRows
  /\ \E text \in DateTexts :
       probe = [fn |-> "extract_date_from_text", arg |-> text,
                out |-> <<>>, done |-> FALSE]

\* date_collected = self.extract_date_from_text(pypdf_text)
CallExtractDateFromText ==
  /\ probe.fn = "extract_date_from_text" /\ ~probe.done
  /\ probe' = [probe EXCEPT
                 !.out = extract_date_from_text(self.date_patterns, probe.arg, today),
                 !.done = TRUE]
  /\ UNCHANGED <<self, call, today, db>>

NextDate == CallExtractDateFromText

SpecDate == InitDate /\ [][NextDate]_vars
(***************************************************************************)
(* The import log: upload, confirm, cancel and delete calls on a database  *)
(***************************************************************************)

\* lab_results rows a run creates at most
MaxResults == 3

\* test indices in one confirmation at most
MaxSelected == 2

\* the uploaded files: the hash of the content and what parse_pdf_content
\* returns for it (<<>> when it raises)
PdfFiles == {
  [file_hash |-> 1, parsed_data |-> <<[tests |-> <<<<"G","l","u","c","o","s","e">>>>]>>],
  [file_hash |-> 2, parsed_data |-> <<[tests |-> <<<<"G","l","u","c","o","s","e">>, <<"H","e","m","o","g","l","o","b","i","n">>>>]>>],
  [file_hash |-> 3, parsed_data |-> <<>>]
  }

\* the import ids of the requests
ImportIds == 1..2

\* the test indices of the requests
TestIndexes == {-1, 0, 1}

\* selected_tests of a confirmation
Selections == UNION {[1..n -> TestIndexes] : n \in 0..MaxSelected}

\* individual_confirmations of a batch
BatchSelections == {<<0>>, <<0, 1>>}

\* a test_index the loop of confirm_pdf_import indexes without an IndexError
Indexable(database, import_id, selected_tests) ==
  \A k \in DOMAIN selected_tests :
    selected_tests[k] < 0 =>
      /\ LogOf(database, import_id) # <<>>
      /\ -selected_tests[k] <= Len(LogOf(database, import_id)[1].parsed_data.tests)

InitImport ==
  /\ self = InitSelf
  /\ call = [c \in {1} |-> Idle]
  /\ today = StartDay
  /\ probe = NoProbe
  /\ db = [NoRows EXCEPT !.labs = <<<<"H","e","m","o","g","l","o","b","i","n"," ","A","1","c">>>>]

\* POST /upload
CallUploadPdf ==
  /\ \E file \in PdfFiles :
       db' = upload_pdf(db, file.file_hash, file.parsed_data)
  /\ UNCHANGED <<self, call, probe, today>>

\* POST /confirm
CallConfirmPdfImport ==
  /\ \E import_id \in ImportIds : \E selected_tests \in Selections :
       /\ Len(db.results) + Len(selected_tests) <= MaxResults
       /\ db' = IF Indexable(db, import_id, selected_tests)
                THEN confirm_pdf_import(db, import_id, selected_tests)
                ELSE db
  /\ UNCHANGED <<self, call, probe, today>>

\* POST /confirm-batch
CallConfirmBatchImport ==
  /\ \E first, second \in ImportIds : \E s1, s2 \in BatchSelections :
       /\ Len(db.results) + Len(s1) + Len(s2) <= MaxResults
       /\ db' = confirm_batch_import(db,
                  <<[import_id |-> first, selected_tests |-> s1],
                    [import_id |-> second, selected_tests |-> s2]>>, 1)
  /\ UNCHANGED <<self, call, probe, today>>

\* DELETE /cancel/{import_id}
CallCancelPdfImport ==
  /\ \E import_id \in ImportIds : db' = cancel_pdf_import(db, import_id)
  /\ UNCHANGED <<self, call, probe, today>>

\* DELETE /{import_id}
CallDeletePdfImport ==
  /\ \E import_id \in ImportIds : db' = delete_pdf_import(db, import_id)
  /\ UNCHANGED <<self, call, probe, today>>

NextImport ==
  \/ CallUploadPdf
  \/ CallConfirmPdfImport
  \/ CallConfirmBatchImport
  \/ CallCancelPdfImport
  \/ CallDeletePdfImport

SpecImport == InitImport /\ [][NextImport]_vars

(***************************************************************************)
(* Claims                                                                  *)
(***************************************************************************)

\* the direct call of method f has returned
Returned(f) == probe.fn = f /\ probe.done

\* u is a numeral: float() accepts it
IsNumeral(u) == TryFloat(u) # NoneNum

\* t has the shape "A-B" at position i: a '-' with a numeral that holds no
\* '-' on each side
IsRangeAt(t, i) ==
  /\ t[i] = "-"
  /\ \A j \in 1..Len(t) : t[j] = "-" => j = i
  /\ IsNumeral(Strip(SubSeq(t, 1, i - 1)))
  /\ IsNumeral(Strip(SubSeq(t, i + 1, Len(t))))

\* t has the shape "A-B" with no leading '<' or '>'
IsRangeShape(t) ==
  /\ ~StartsWith(t, <<"<">>) /\ ~StartsWith(t, <<">">>)
  /\ \E i \in 1..Len(t) : IsRangeAt(t, i)

\* t has the shape "<B" (sign = "<") or ">A" (sign = ">")
IsBoundShape(t, sign) == StartsWith(t, <<sign>>) /\ IsNumeral(Strip(Tail(t)))

\* the result r of parse_reference_range on the trimmed text t has the one
\* shape that t calls for
RangeShapeOf(t, r) ==
  /\ r.text = t
  /\ IF IsRangeShape(t)
     THEN \E i \in 1..Len(t) :
            /\ IsRangeAt(t, i)
            /\ r.low = TryFloat(Strip(SubSeq(t, 1, i - 1)))
            /\ r.high = TryFloat(Strip(SubSeq(t, i + 1, Len(t))))
     ELSE IF IsBoundShape(t, "<")
     THEN r.low = NoneNum /\ r.high = TryFloat(Strip(Tail(t)))
     ELSE IF IsBoundShape(t, ">")
     THEN r.low = TryFloat(Strip(Tail(t))) /\ r.high = NoneNum
     ELSE r.low = NoneNum /\ r.high = NoneNum
  /\ (r.low # NoneNum /\ r.high # NoneNum => IsRangeShape(t))

ParseNumericLeadingOnly(result) ==
  IF ~Truthy(result) THEN NoneNum
  ELSE IF Head(result) \in {"<", ">"} THEN TryFloat(Tail(result))
  ELSE TryFloat(result)

\* C10: parse_numeric_result strips only a leading '<' or '>' and converts
\* the remainder; a text that is no number after removing a leading
\* comparison sign (such as one with '<' or '>' in a non-leading position)
\* yields no numeric value.
C10_LeadingSignOnly ==
  Returned("parse_numeric_result") =>
    probe.out = ParseNumericLeadingOnly(probe.arg)


(***************************************************************************)
(* Claims about the Document Assembler and the records                     *)
(***************************************************************************)

\* the call in slot c has ended
Done(c) == call[c].pc = "done"

\* the call in slot c ran exactly these calls, in this order
Ran(c, stages) == call[c].ran = stages

OnlyTableStrategy == <<"parse_with_pdfplumber">>

WithFallback == <<"parse_with_pdfplumber", "extract_text_from_pdf", "parse_labcorp_report">>

\* r is a result of the table strategy that holds at least one TestRecord
HasTests(r) == r # <<>> /\ r[1].tests # <<>>

\* C1: whenever the table strategy (parse_with_pdfplumber) yields at least
\* one TestRecord, parse_pdf_content returns exactly that result and the
\* flowed-text fallback is never run; the fallback runs only when the table
\* strategy yields zero tests or fails.  While the fallback is running
\* (before parse_labcorp_report has stored its own result) the table
\* strategy's result holds no test, and a call that ended without the
\* fallback returned the table strategy's result, which holds a test.
C1_TableStrategyPriority ==
  \A c \in DOMAIN call :
    /\ call[c].pc \in {"extract", "grammar"} =>
         /\ ~HasTests(call[c].result)
         /\ Head(call[c].ran) = "parse_with_pdfplumber"
    /\ Done(c) /\ Ran(c, OnlyTableStrategy) =>
         /\ HasTests(call[c].result)
         /\ call[c].outcome = ReturnOf(call[c].result[1])
         /\ call[c].text = <<>>
    /\ Done(c) /\ ~call[c].content.empty => Head(call[c].ran) = "parse_with_pdfplumber"

\* C1 witness: a call on a document of more than one page has returned the
\* table strategy's result without running the fallback
C1_Witness ==
  \E c \in DOMAIN call :
    /\ Done(c) /\ Ran(c, OnlyTableStrategy)
    /\ Len(call[c].content.pages) > 1
    /\ call[c].outcome.kind = "returned"
    /\ call[c].outcome.doc[1].tests # <<>>

\* C2: every ParsedDocument parse_pdf_content returns has a non-empty tests
\* sequence or a non-null date_collected; when the fallback's result has
\* neither a test nor a date the call fails with the no-data error.
C2_ReturnedHasSignal ==
  \A c \in DOMAIN call :
    Done(c) =>
      /\ call[c].outcome.kind = "returned" =>
           \/ call[c].outcome.doc[1].tests # <<>>
           \/ call[c].outcome.doc[1].date_collected # None
      /\ /\ Ran(c, WithFallback)
         /\ call[c].result[1].tests = <<>>
         /\ call[c].result[1].date_collected = None
         => call[c].outcome =
              ParsingFailed("No lab results or date found - this may not be a compatible lab report")

\* C2 witness: a call has returned a document with a date and no tests
C2_Witness ==
  \E c \in DOMAIN call :
    /\ Done(c)
    /\ call[c].outcome.kind = "returned"
    /\ call[c].outcome.doc[1].tests = <<>>
    /\ call[c].outcome.doc[1].date_collected # None

\* the document holds no table
NoTables(content) == \A i \in 1..Len(content.pages) : content.pages[i].tables = <<>>

\* the document's flowed text, trimmed, is shorter than 50 characters
ShortFlowedText(content) == Len(Strip(extract_text_from_pdf(content))) < MinTextLength

\* the call in slot c has ended, on a document without tables and with
\* short flowed text
EndedOnShortDocument(c) ==
  /\ Done(c)
  /\ ~call[c].content.empty
  /\ NoTables(call[c].content)
  /\ ShortFlowedText(call[c].content)

\* C3 as stated: for a document with no tables and flowed text shorter than
\* 50 characters parse_pdf_content raises a failure and never returns a
\* ParsedDocument, whatever the short text contains.
C3_ShortDocumentFails ==
  \A c \in DOMAIN call :
    EndedOnShortDocument(c) => call[c].outcome.kind # "returned"

\* C3 amended: for a document with no tables and flowed text shorter than
\* 50 characters parse_pdf_content fails with the empty-document error
\* unless the per-page text strategy recovered at least one test from a
\* page, in which case it returns the table strategy's result; it never
\* returns a document without tests.
C3_ShortDocumentFailsUnlessTests ==
  \A c \in DOMAIN call :
    EndedOnShortDocument(c) =>
      IF HasTests(call[c].result)
      THEN /\ Ran(c, OnlyTableStrategy)
           /\ call[c].outcome = ReturnOf(call[c].result[1])
      ELSE call[c].outcome =
             ParsingFailed("PDF appears to be empty or contains no readable text")

\* C3 witness: a call on a readable document with a page of short text that
\* holds no result has failed
C3_Witness ==
  \E c \in DOMAIN call :
    /\ EndedOnShortDocument(c)
    /\ call[c].content.pypdf_ok /\ call[c].content.plumber_ok
    /\ call[c].content.pages # <<>>
    /\ call[c].outcome.kind = "ValueError"

\* both PDF readers reject the buffer
Corrupt(content) == ~content.empty /\ ~content.pypdf_ok /\ ~content.plumber_ok

\* C4: when the PDF container is corrupt (the readers raise a read error)
\* parse_pdf_content raises PdfReadError, never the generic parse-failed,
\* empty-document or no-data error.
C4_CorruptRaisesReadError ==
  \A c \in DOMAIN call :
    Done(c) /\ Corrupt(call[c].content) => call[c].outcome.kind = "PdfReadError"

\* C5: for a readable document with at least 50 characters of flowed text
\* from which the metadata date extractor recovers a collection date,
\* parse_pdf_content returns a ParsedDocument whichever flowed-text grammar
\* format detection selects: a call that reaches parse_labcorp_report (its
\* text has passed the length check) with a date in the table strategy's
\* result ends by returning.
C5_DateIsPartialSuccess ==
  [][\A c \in DOMAIN call :
       /\ call[c].pc = "grammar" /\ call'[c].pc = "done"
       /\ call[c].result # <<>>
       /\ call[c].result[1].date_collected # None
       => call'[c].outcome.kind = "returned"]_vars

\* C6: parsing the same byte buffer twice gives identical outcomes, and no
\* call changes state another call reads (the parser's attributes).
C6_SameBufferSameOutcome ==
  /\ self = InitSelf
  /\ \A c1, c2 \in DOMAIN call :
       Done(c1) /\ Done(c2) /\ call[c1].content = call[c2].content
       => call[c1].outcome = call[c2].outcome

\* the direct calls that produce TestRecords
RecordProducers ==
  {"process_row_with_headers", "process_row_heuristic",
   "extract_tests_from_text", "extract_labcorp_tests"}

\* a direct call of a record producer has returned
Produced == probe.fn \in RecordProducers /\ probe.done

\* C7: in every TestRecord produced by any strategy numeric_value and
\* result_text are never both non-null.
C7_ValueAndTextExclusive ==
  Produced =>
    \A i \in 1..Len(probe.out) :
      ~(probe.out[i].numeric_value # NoneNum /\ probe.out[i].result_text # None)

\* C7 witness: the vendor grammar has produced a record with a result_text
\* and the table strategy's role mapping one with a numeric_value
C7_Witness ==
  /\ Produced
  /\ probe.out # <<>>
  /\ \/ probe.fn = "extract_labcorp_tests" /\ probe.out[1].result_text # None
     \/ probe.fn = "process_row_with_headers" /\ probe.out[1].numeric_value # NoneNum

\* C8: in every TestRecord is_qualitative is true exactly when result_text
\* is non-null, is_numeric is true exactly when numeric_value is non-null,
\* and a record whose printed result is a number carries no result_text.
C8_FlagsDescribeFields ==
  Produced =>
    \A i \in 1..Len(probe.out) :
      /\ probe.out[i].is_qualitative <=> probe.out[i].result_text # None
      /\ probe.out[i].is_numeric <=> probe.out[i].numeric_value # NoneNum
      /\ probe.out[i].result_text # None => TryFloat(probe.out[i].result_text) = NoneNum


(***************************************************************************)
(* Claims on the qualitative results                                       *)
(***************************************************************************)

\* the text s holds one of the terms, in any case
HoldsTerm(s, terms) ==
  \E term \in terms : \E i \in 1..Len(s) :
    i + Len(term) - 1 <= Len(s) /\ Upper(SubSeq(s, i, i + Len(term) - 1)) = term

NegativeFamily == {<<"N","E","G","A","T","I","V","E">>, <<"N","O","N"," ","R","E","A","C","T","I","V","E">>, <<"N","O","T"," ","D","E","T","E","C","T","E","D">>, <<"A","B","S","E","N","T">>}

PositiveFamily == {<<"P","O","S","I","T","I","V","E">>, <<"R","E","A","C","T","I","V","E">>, <<"D","E","T","E","C","T","E","D">>, <<"P","R","E","S","E","N","T">>}

IndeterminateFamily == {<<"I","N","D","E","T","E","R","M","I","N","A","T","E">>, <<"B","O","R","D","E","R","L","I","N","E">>, <<"I","N","C","O","N","C","L","U","S","I","V","E">>}

\* the standard word for the text s, or the trimmed text
StandardWord(s) ==
  CASE HoldsTerm(s, NegativeFamily) -> <<"N","e","g","a","t","i","v","e">>
    [] HoldsTerm(s, PositiveFamily) -> <<"P","o","s","i","t","i","v","e">>
    [] HoldsTerm(s, IndeterminateFamily) -> <<"I","n","d","e","t","e","r","m","i","n","a","t","e">>
    [] OTHER -> Strip(s)

\* C11: standardize_qualitative_result maps a result that holds a
\* negative-family term to "Negative" (also when the term is NON REACTIVE or
\* NOT DETECTED, which hold REACTIVE and DETECTED), any other result that
\* holds a positive-family term to "Positive", any other that holds an
\* indeterminate-family term to "Indeterminate", and returns all remaining
\* text trimmed and otherwise unmodified.
C11_StandardWords ==
  Returned("standardize_qualitative_result") => probe.out = StandardWord(probe.arg)

\* C11 witness: a result that holds NON REACTIVE or NOT DETECTED, hence a
\* positive-family term as well, has been standardized to "Negative"
C11_Witness ==
  /\ Returned("standardize_qualitative_result")
  /\ HoldsTerm(probe.arg, {<<"N","O","N"," ","R","E","A","C","T","I","V","E">>, <<"N","O","T"," ","D","E","T","E","C","T","E","D">>})
  /\ HoldsTerm(probe.arg, PositiveFamily)
  /\ probe.out = <<"N","e","g","a","t","i","v","e">>

(***************************************************************************)
(* Claims on the known fallbacks                                           *)
(***************************************************************************)

\* the test name is one the fallback tables recognize
Recognized(test_name) == KnownUnit(Lower(test_name)) # None

\* C12: the known fallbacks never override a value the document provides:
\* apply_unit_mappings returns the document's pagination-cleaned unit
\* whenever that cleaned unit is non-empty, and
\* apply_reference_range_mappings returns the document's range unchanged
\* whenever it carries reference text, for every test name, the recognized
\* ones included.
C12_DocumentValueKept ==
  /\ Returned("apply_unit_mappings") /\ Truthy(probe.arg[2])
       /\ Truthy(_clean_pagination_text(probe.arg[2]))
     => probe.out = _clean_pagination_text(probe.arg[2])
  /\ Returned("apply_reference_range_mappings") /\ Truthy(probe.arg[2].text)
     => probe.out = probe.arg[2]

\* C12 witness: a recognized test whose unit came with a pagination
\* artifact has kept the document's unit, which is not the fallback's
C12_Witness ==
  /\ Returned("apply_unit_mappings")
  /\ Recognized(probe.arg[1])
  /\ probe.arg[2] = <<"m","g","/","d","L"," ","p","a","g","e"," ","1"," ","o","f"," ","2">>
  /\ probe.out = <<"m","g","/","d","L">>
  /\ probe.out # KnownUnit(Lower(probe.arg[1]))

\* the record r holds no reference text of the document: its range has no
\* text, or the text of the fallback table
RangeOmitted(r) ==
  ~Truthy(r.reference_range.text)
    \/ r.reference_range.text = KnownRange(Lower(r.name), NoRange).text

\* the record r holds no unit of the document
UnitOmitted(r) == ~Truthy(r.unit) \/ r.unit = KnownUnit(Lower(r.name))

\* C13: in every TestRecord of a recognized test whose document omits the
\* value the known fallback is applied, whichever strategy produced it: a
\* record whose name contains "egfr" has reference_range {low: 90, high:
\* null} when the document gives no range and the unit mL/min/1.73m^2 when
\* it gives no unit.
C13_FallbackInEveryStrategy ==
  Produced =>
    \A i \in 1..Len(probe.out) :
      Contains(Lower(probe.out[i].name), <<"e", "g", "f", "r">>) =>
        /\ RangeOmitted(probe.out[i]) =>
             /\ probe.out[i].reference_range.low = Num(90, 0)
             /\ probe.out[i].reference_range.high = NoneNum
        /\ UnitOmitted(probe.out[i]) =>
             probe.out[i].unit = KnownUnit(<<"e", "g", "f", "r">>)

(***************************************************************************)
(* Claims on the ordered panels                                            *)
(***************************************************************************)

\* seg ends with a parenthesized numeric code that opens at position i
CodeAt(seg, i) ==
  /\ i < Len(seg) - 1
  /\ seg[i] = "(" /\ seg[Len(seg)] = ")"
  /\ \A j \in (i + 1)..(Len(seg) - 1) : seg[j] \in Digit

\* seg ends with a parenthesized numeric code
HasTrailingCode(seg) == \E i \in 1..Len(seg) : CodeAt(seg, i)

\* seg without its trailing code
WithoutTrailingCode(seg) ==
  Strip(SubSeq(seg, 1, (CHOOSE i \in 1..Len(seg) : CodeAt(seg, i)) - 1))

NotEmpty(seg) == seg # <<>>

\* the non-empty trimmed segments of a line
SegmentsOf(line) ==
  SelectSeq([k \in 1..Len(Split(line, ";")) |-> Strip(Split(line, ";")[k])], NotEmpty)

\* C14: ordered-panel segment extraction strips only the trailing
\* parenthesized numeric code of each ';'-separated segment and keeps any
\* inner parenthetical: a line whose segments all end with a code after a
\* name of more than 5 characters yields exactly the names before the
\* trailing codes, in the line's order, with no entry for an empty segment.
C14_OnlyTrailingCodeStripped ==
  Returned("extract_panels_from_ordered_line")
    /\ (\A k \in 1..Len(SegmentsOf(probe.arg)) :
          /\ HasTrailingCode(SegmentsOf(probe.arg)[k])
          /\ Len(WithoutTrailingCode(SegmentsOf(probe.arg)[k])) > 5)
  => probe.out = [k \in 1..Len(SegmentsOf(probe.arg)) |->
                    WithoutTrailingCode(SegmentsOf(probe.arg)[k])]

(***************************************************************************)
(* Claims on the table strategy                                            *)
(***************************************************************************)

\* C15: in a qualifying results table the fields of a record are taken from
\* the columns by header role, whatever the position of the columns: for
\* every order of the columns TEST, RESULT, FLAG, REFERENCE INTERVAL, UNIT
\* (header and row alike) the row Glucose / 87 / H / 70-99 / mg/dL yields the
\* one record with name "Glucose", numeric_value 87.0, reference_range
\* {low: 70, high: 99} and unit "mg/dL".
C15_FieldsByHeaderRole ==
  Returned("process_table_with_ordered_panels") /\ probe.arg[1] \in PermutedTables
  => /\ Len(probe.out) = 1
     /\ probe.out[1].name = <<"G","l","u","c","o","s","e">>
     /\ probe.out[1].result.s = <<"8","7">>
     /\ probe.out[1].numeric_value = Num(87, 0)
     /\ probe.out[1].is_numeric
     /\ probe.out[1].result_text = None
     /\ probe.out[1].reference_range = RefRange(Num(70, 0), Num(99, 0), <<"7","0","-","9","9">>)
     /\ probe.out[1].unit = <<"m","g","/","d","L">>

\* C15 witness: the record has been produced from a table whose first
\* column is UNIT and whose last column is TEST
C15_Witness ==
  /\ Returned("process_table_with_ordered_panels")
  /\ probe.arg[1] \in PermutedTables
  /\ probe.arg[1][1][1] = <<"U","N","I","T">>
  /\ probe.arg[1][1][5] = <<"T","E","S","T">>
  /\ Len(probe.out) = 1
  /\ probe.out[1].name = <<"G","l","u","c","o","s","e">>
  /\ probe.out[1].unit = <<"m","g","/","d","L">>

\* the text v of an ignored column is a field of the record r
TakenInto(v, r) ==
  v # <<>> /\ v \in {r.name, r.result.s, r.unit, r.reference_range.text}

\* C16: for every data row of a qualifying table the cells under a header
\* containing FLAG or LAB are discarded: they never become the name, result,
\* unit or reference_range of the produced record, even when they look
\* numeric (a LAB code "01") or unit-shaped (a flag "H"), and also when the
\* row's mapped name or result cell is empty.
C16_IgnoredColumnsDiscarded ==
  Returned("process_table_with_ordered_panels") /\ probe.arg[1] \in FlagTables
  => \A i \in 1..Len(probe.out) : \A col \in DOMAIN FlagHeaders :
       HeaderRole(FlagHeaders[col]) = "ignored"
         => ~TakenInto(probe.arg[1][2][col], probe.out[i])

\* the non-empty trimmed cells of a row
PrintedCells(row) == SelectSeq([i \in DOMAIN row |-> Strip(row[i])], NotEmpty)

\* the row is a count row: its result, the cell after the name, is exactly
\* "01" and its name holds "immature", "nrbc" or "comment" in any case
CountRow(row) ==
  /\ Len(PrintedCells(row)) >= 2
  /\ PrintedCells(row)[2] = <<"0","1">>
  /\ HoldsTerm(PrintedCells(row)[1], {<<"I","M","M","A","T","U","R","E">>, <<"N","R","B","C">>, <<"C","O","M","M","E","N","T">>})

OrdinaryRow(row) == ~CountRow(row)

WithoutFlag(tests) == [i \in 1..Len(tests) |-> [tests[i] EXCEPT !.flag = None]]

\* C17: the abnormal flag printed with a result is recorded but never
\* interpreted: two lines that differ only in the flag text yield the same
\* records with identical name, result, unit, reference_range and panel,
\* differing at most in the flag field; a flag never causes a record to be
\* dropped.
C17_FlagNeverInterpreted ==
  Returned("extract_labcorp_tests") =>
    WithoutFlag(probe.out[1]) = WithoutFlag(probe.out[2])

(***************************************************************************)
(* Claims on the panel inference                                           *)
(***************************************************************************)

\* the keyword hits of panel type k (a position of panel_test_patterns) in
\* the lower-cased test name
Hits(k, test_name) ==
  Cardinality({i \in DOMAIN panel_test_patterns[k].patterns :
                 Contains(Lower(test_name), panel_test_patterns[k].patterns[i])})

\* the position of the panel type in panel_test_patterns
TypeAt(type) == CHOOSE k \in DOMAIN panel_test_patterns : panel_test_patterns[k].type = type

\* the keyword hits of the test name are hits of the one panel type
HitsOnly(type, test_name) ==
  \A k \in DOMAIN panel_test_patterns :
    Hits(k, test_name) > 0 <=> k = TypeAt(type)

\* the panel's name holds the word
Names(panel, word) == panel # None /\ Contains(Lower(panel), word)

\* C19: panel inference never selects a panel whose name contains
\* "metabolic" on the strength of CBC keyword hits, and selects a metabolic
\* panel for a metabolic test even when a CBC panel is also ordered: the
\* test name "Glucose" with the ordered panels "Comp. Metabolic Panel (14)"
\* and "CBC With Differential", in either order, infers "Comp. Metabolic
\* Panel (14)".
C19_MetabolicNotByCbcHits ==
  Returned("infer_panel_from_test_name") =>
    /\ HitsOnly("cbc", probe.arg[1]) => ~Names(probe.out, <<"m","e","t","a","b","o","l","i","c">>)
    /\ /\ HitsOnly("metabolic", probe.arg[1])
       /\ \E j \in DOMAIN probe.arg[2] : Names(probe.arg[2][j], <<"m","e","t","a","b","o","l","i","c">>)
       => Names(probe.out, <<"m","e","t","a","b","o","l","i","c">>)
    /\ /\ probe.arg[1] = <<"G","l","u","c","o","s","e">>
       /\ probe.arg[2] \in
            {<<<<"C","o","m","p","."," ","M","e","t","a","b","o","l","i","c"," ","P","a","n","e","l"," ","(","1","4",")">>, <<"C","B","C"," ","W","i","t","h"," ","D","i","f","f","e","r","e","n","t","i","a","l">>>>,
             <<<<"C","B","C"," ","W","i","t","h"," ","D","i","f","f","e","r","e","n","t","i","a","l">>, <<"C","o","m","p","."," ","M","e","t","a","b","o","l","i","c"," ","P","a","n","e","l"," ","(","1","4",")">>>>}
       => probe.out = <<"C","o","m","p","."," ","M","e","t","a","b","o","l","i","c"," ","P","a","n","e","l"," ","(","1","4",")">>

\* C19 witness: "Glucose" with the CBC panel ordered before the metabolic
\* one has been given the metabolic panel
C19_Witness ==
  /\ Returned("infer_panel_from_test_name")
  /\ probe.arg = <<<<"G","l","u","c","o","s","e">>,
                   <<<<"C","B","C"," ","W","i","t","h"," ","D","i","f","f","e","r","e","n","t","i","a","l">>, <<"C","o","m","p","."," ","M","e","t","a","b","o","l","i","c"," ","P","a","n","e","l"," ","(","1","4",")">>>>>>
  /\ probe.out = <<"C","o","m","p","."," ","M","e","t","a","b","o","l","i","c"," ","P","a","n","e","l"," ","(","1","4",")">>

\* the (panel type, ordered panel) pairs, as positions, where the type has
\* a keyword hit in the test name and the panel passes the type's
\* discriminator
Candidates(test_name, ordered_panels) ==
  {q \in (DOMAIN panel_test_patterns) \X (DOMAIN ordered_panels) :
     /\ Hits(q[1], test_name) > 0
     /\ TypeMatch(panel_test_patterns[q[1]].type, Lower(ordered_panels[q[2]]))}

\* the pair p is found before the pair q: panel-type table order, then
\* ordered-panel order
FoundBefore(p, q) == p[1] < q[1] \/ (p[1] = q[1] /\ p[2] <= q[2])

\* the first found of the pairs with the most keyword hits
BestOf(pairs, test_name) ==
  CHOOSE p \in pairs : \A q \in pairs :
    \/ Hits(q[1], test_name) < Hits(p[1], test_name)
    \/ Hits(q[1], test_name) = Hits(p[1], test_name) /\ FoundBefore(p, q)

\* C20: infer_panel_from_test_name returns at most one panel, a member of
\* the ordered-panel list: among the (panel type, ordered panel) pairs
\* where the type has a keyword hit in the lower-cased test name and the
\* panel passes the type's discriminator it returns the panel of a pair
\* with the most keyword hits, the first found on ties (panel-type table
\* order, then ordered-panel order); it returns none when the list is empty
\* or there is no such pair.
C20_BestFirstFound ==
  Returned("infer_panel_from_test_name") =>
    IF Candidates(probe.arg[1], probe.arg[2]) = {} THEN probe.out = None
    ELSE probe.out =
           probe.arg[2][BestOf(Candidates(probe.arg[1], probe.arg[2]), probe.arg[1])[2]]

\* C20 witness: a test with hits of two panel types (one of cbc, two of
\* diabetes) and panels of both has been given the panel of the type with
\* more hits, and a test with two panels of its type the first of them
C20_Witness ==
  /\ Returned("infer_panel_from_test_name")
  /\ \/ /\ probe.arg = <<<<"H","e","m","o","g","l","o","b","i","n"," ","A","1","c">>,
                         <<<<"C","B","C"," ","W","i","t","h"," ","D","i","f","f","e","r","e","n","t","i","a","l">>, <<"H","e","m","o","g","l","o","b","i","n"," ","A","1","c">>>>>>
        /\ probe.out = <<"H","e","m","o","g","l","o","b","i","n"," ","A","1","c">>
     \/ /\ probe.arg = <<<<"G","l","u","c","o","s","e">>,
                         <<<<"B","a","s","i","c"," ","M","e","t","a","b","o","l","i","c"," ","P","a","n","e","l"," ","(","8",")">>, <<"C","o","m","p","."," ","M","e","t","a","b","o","l","i","c"," ","P","a","n","e","l"," ","(","1","4",")">>>>>>
        /\ probe.out = <<"B","a","s","i","c"," ","M","e","t","a","b","o","l","i","c"," ","P","a","n","e","l"," ","(","8",")">>

(***************************************************************************)
(* Claims on the names of the records                                      *)
(***************************************************************************)

\* the name is non-empty, at least 3 characters long, no instructional
\* text and holds no artifact word
NameOk(name) ==
  /\ name # None /\ name # <<>> /\ Len(name) >= 3
  /\ ~_is_instructional_text(name)
  /\ \A k \in DOMAIN invalid_artifacts : ~Contains(Lower(name), invalid_artifacts[k])

\* C21: every TestRecord from any strategy has a name that is non-empty, at
\* least 3 characters long and passes the valid-test-name filter; a row or
\* line whose candidate name fails the filter is omitted and the remaining
\* rows or lines are still extracted: the names of the records are the
\* candidate names that pass, in their order.
C21_NamesPassFilter ==
  /\ probe.fn \in {"process_table_with_ordered_panels", "extract_tests_from_text",
                   "extract_labcorp_tests"}
  /\ probe.done
  => /\ \A i \in DOMAIN probe.out : NameOk(probe.out[i].name)
     /\ [i \in DOMAIN probe.out |-> probe.out[i].name] = SelectSeq(probe.arg, NameOk)

\* C21 witness: a row or line with a failing name before one with a passing
\* name has been left out and the passing one has given a record
C21_Witness ==
  /\ probe.done
  /\ Len(probe.arg) = 2 /\ ~NameOk(probe.arg[1]) /\ NameOk(probe.arg[2])
  /\ Len(probe.out) = 1 /\ probe.out[1].name = probe.arg[2]

(***************************************************************************)
(* Claims on the catalog match                                             *)
(***************************************************************************)

\* the catalog entry c may be matched to the test name t: equal but for
\* case, or t a prefix of c followed by one of ( ) , - or by a blank and one
\* of those
MayMatch(c, t) ==
  \/ Lower(c) = Lower(t)
  \/ /\ Len(c) > Len(t)
     /\ SubSeq(Lower(c), 1, Len(t)) = Lower(t)
     /\ \/ c[Len(t) + 1] \in {"(", ")", ",", "-"}
        \/ /\ c[Len(t) + 1] = " "
           /\ Len(c) > Len(t) + 1
           /\ c[Len(t) + 2] \in {"(", ")", ",", "-"}

\* C22: at upload preview and at confirm alike, a parsed test name T is
\* matched to a catalog entry C only if C equals T case-insensitively, or
\* lower(C) starts with lower(T) and the next character of C is one of
\* ( ) , - or a blank followed by one of those; no other entry ever
\* matches, and a name without such an entry is left unmatched.
C22_OnlyDelimitedPrefix ==
  Returned("upload_pdf") \/ Returned("confirm_pdf_import") =>
    /\ probe.out # None => MayMatch(probe.out, probe.arg[1])
    /\ probe.out = None =>
         \A k \in DOMAIN probe.arg[2] : ~MayMatch(probe.arg[2][k], probe.arg[1])

(***************************************************************************)
(* Claims on the header row of a table                                     *)
(***************************************************************************)

\* a cell of the row holds the token, in any case
HasToken(row, token) ==
  \E j \in DOMAIN row : row[j] # None /\ Contains(Lower(row[j]), token)

\* the row marks itself as header row
MarksHeader(row) ==
  HasToken(row, <<"t","e","s","t">>) \/ HasToken(row, <<"r","e","s","u","l","t">>) \/ HasToken(row, <<"r","e","f","e","r","e","n","c","e">>)

\* the header row: the first row with a cell holding "test", "result" or
\* "reference", else the first row
HeaderRowOf(table) ==
  IF \E i \in DOMAIN table : MarksHeader(table[i])
  THEN CHOOSE i \in DOMAIN table :
         MarksHeader(table[i]) /\ \A k \in 1..(i - 1) : ~MarksHeader(table[k])
  ELSE 1

\* the header row qualifies: a "test" and a "result" token and no
\* patient, specimen, account or control indicator
Qualifies(headers) ==
  /\ HasToken(headers, <<"t","e","s","t">>) /\ HasToken(headers, <<"r","e","s","u","l","t">>)
  /\ ~HasToken(headers, <<"p","a","t","i","e","n","t">>) /\ ~HasToken(headers, <<"s","p","e","c","i","m","e","n">>)
  /\ ~HasToken(headers, <<"a","c","c","o","u","n","t">>) /\ ~HasToken(headers, <<"c","o","n","t","r","o","l">>)

\* C23: a table produces zero records unless its header row holds both a
\* "test" token and a "result" token and none of the patient, specimen,
\* account and control indicators; the header row is the first row with a
\* cell holding "test", "result" or "reference" in any case, else row 0,
\* and only the rows below it are walked as data: every record comes from
\* one of them.
C23_HeaderRowDecides ==
  Returned("process_table_with_ordered_panels") =>
    LET table == probe.arg[1]
        h == HeaderRowOf(table)
    IN /\ probe.out # <<>> => Qualifies(table[h])
       /\ Len(probe.out) <= Len(table) - h
       /\ \A i \in DOMAIN probe.out :
            \E r \in (h + 1)..Len(table) : table[r][1] = probe.out[i].name

\* C23 witness: a table with a data row above its header row has given the
\* records of the rows below the header row only
C23_Witness ==
  /\ Returned("process_table_with_ordered_panels")
  /\ probe.arg[1] = <<<<<<"G","l","u","c","o","s","e">>, <<"8","7">>, <<"m","g","/","d","L">>>>,
                      <<<<"T","E","S","T">>, <<"R","E","S","U","L","T">>, <<"U","N","I","T","S">>>>,
                      <<<<"C","a","l","c","i","u","m">>, <<"9",".","5">>, <<"m","g","/","d","L">>>>>>
  /\ Len(probe.out) = 1 /\ probe.out[1].name = <<"C","a","l","c","i","u","m">>

(***************************************************************************)
(* Claims on panel-header rows                                             *)
(***************************************************************************)

\* the position of the first non-empty cell of the row (0: none)
FirstNonEmpty(row) ==
  IF \E j \in DOMAIN row : NonBlank(row[j])
  THEN CHOOSE j \in DOMAIN row : NonBlank(row[j]) /\ \A h \in 1..(j - 1) : ~NonBlank(row[h])
  ELSE 0

\* the cell looks numeric
LooksNumeric(cell) == Truthy(cell) /\ ReSearch(numeric_pattern, Strip(cell), FALSE).ok

\* a cell of the row other than its first non-empty cell looks numeric
OtherCellNumeric(row) ==
  \E j \in DOMAIN row : j # FirstNonEmpty(row) /\ LooksNumeric(row[j])

\* the cell equals the panel name, contains it or is contained in it, in
\* any case
NamesPanel(cell, panel) ==
  \/ Lower(cell) = Lower(panel)
  \/ Contains(Lower(cell), Lower(panel))
  \/ Contains(Lower(panel), Lower(cell))

\* the cell equals the panel name in any case, or is longer than 5
\* characters and contains it or is contained in it
NamesPanelClosely(cell, panel) ==
  \/ Lower(cell) = Lower(panel)
  \/ Len(cell) > 5 /\ NamesPanel(cell, panel)

\* the walk of the table <<header row, row, PlainRow>> has treated the row
\* as the header row of the panel: no record of its own, and the record of
\* PlainRow is tagged with the panel
TreatedAsHeaderOf(panel) ==
  /\ Len(probe.out) = 1
  /\ probe.out[1].name = PlainRow[1]
  /\ probe.out[1].panel_name = panel

\* the ordered panels the row's first non-empty cell stands for under the
\* relation Stands, when no other cell looks numeric
PanelsOfRow(row, ordered_panels, Stands(_, _)) ==
  IF FirstNonEmpty(row) = 0 \/ OtherCellNumeric(row) THEN {}
  ELSE {k \in DOMAIN ordered_panels :
          Stands(JoinWords(Strip(row[FirstNonEmpty(row)])), ordered_panels[k])}

\* C24 as stated: a row is treated as a panel-header row exactly when its
\* first non-empty cell equals (case-insensitively), contains or is
\* contained in one of the ordered-panel names and none of its other cells
\* looks numeric; it then sets the context to a matched panel and yields no
\* record.
C24_PanelRowByAnyContainment ==
  Returned("process_table_with_ordered_panels") =>
    LET row == probe.arg[1][2]
        ordered_panels == probe.arg[2]
        ks == PanelsOfRow(row, ordered_panels, NamesPanel)
    IN /\ ks # {} => \E k \in ks : TreatedAsHeaderOf(ordered_panels[k])
       /\ ks = {} => \A k \in DOMAIN ordered_panels : ~TreatedAsHeaderOf(ordered_panels[k])

\* C24 amended: a row is treated as a panel-header row exactly when its
\* first non-empty cell equals (case-insensitively) one of the ordered-panel
\* names, or is longer than 5 characters and contains or is contained in
\* one, and none of its other cells looks numeric; it then sets the context
\* to the first such panel of the list and yields no record; a row with a
\* numeric-looking cell besides its first non-empty cell is never treated
\* as a panel header.
C24_PanelRowByCloseMatch ==
  Returned("process_table_with_ordered_panels") =>
    LET row == probe.arg[1][2]
        ordered_panels == probe.arg[2]
        ks == PanelsOfRow(row, ordered_panels, NamesPanelClosely)
    IN /\ ks # {} =>
            TreatedAsHeaderOf(ordered_panels[CHOOSE k \in ks : \A h \in ks : k <= h])
       /\ ks = {} => \A k \in DOMAIN ordered_panels : ~TreatedAsHeaderOf(ordered_panels[k])
       /\ OtherCellNumeric(row) =>
            \A k \in DOMAIN ordered_panels : ~TreatedAsHeaderOf(ordered_panels[k])

\* C24 witness: a row whose first cell contains the name of the second
\* ordered panel has set that panel as the context of the next row
C24_Witness ==
  /\ Returned("process_table_with_ordered_panels")
  /\ probe.arg[2] = <<<<"C","B","C"," ","W","i","t","h"," ","D","i","f","f","e","r","e","n","t","i","a","l">>, <<"L","i","p","i","d"," ","P","a","n","e","l">>>>
  /\ probe.arg[1][2] = <<<<"L","i","p","i","d"," ","P","a","n","e","l"," ","R","e","s","u","l","t","s">>, <<>>, <<>>>>
  /\ TreatedAsHeaderOf(<<"L","i","p","i","d"," ","P","a","n","e","l">>)

(***************************************************************************)
(* Claims on the panel of the records of a table                           *)
(***************************************************************************)

RECURSIVE PanelTags(_, _, _, _)
\* the panels of the records of the rows from row i on, when the walk
\* reaches row i with the context: a panel-header row replaces the context;
\* a record made within a context is tagged with it; without a context it
\* is tagged with the panel inferred from its name, if any, and that panel
\* becomes the context
PanelTags(table, i, ordered_panels, context) ==
  IF i > Len(table) THEN <<>>
  ELSE IF match_row_to_ordered_panel(table[i], ordered_panels) # None
  THEN PanelTags(table, i + 1, ordered_panels,
                 match_row_to_ordered_panel(table[i], ordered_panels))
  ELSE IF process_table_row(table[i], table[1]) = <<>>
  THEN PanelTags(table, i + 1, ordered_panels, context)
  ELSE IF context # None
  THEN <<context>> \o PanelTags(table, i + 1, ordered_panels, context)
  ELSE <<infer_panel_from_test_name(table[i][1], ordered_panels)>>
       \o PanelTags(table, i + 1, ordered_panels,
                    infer_panel_from_test_name(table[i][1], ordered_panels))

\* C25: while the rows of a table are walked, a record made while a
\* current-panel context is active is tagged with exactly that panel and
\* inference is not consulted; without a context, a record whose name
\* infers P is tagged P and P is the context of every later record until a
\* panel-header row replaces it; without a context and with no inferred
\* panel the record has no panel_name and the context stays empty.
C25_ContextThenInference ==
  Returned("process_table_with_ordered_panels") =>
    [i \in DOMAIN probe.out |-> probe.out[i].panel_name]
      = PanelTags(probe.arg[1], 2, probe.arg[2], None)

\* C25 witness: a record tagged by inference has passed its panel on to a
\* later record whose own name infers another panel
C25_Witness ==
  /\ Returned("process_table_with_ordered_panels")
  /\ Len(probe.out) = 2
  /\ probe.out[1].name = <<"G","l","u","c","o","s","e">> /\ probe.out[2].name = <<"W","B","C">>
  /\ probe.out[1].panel_name = <<"C","o","m","p","."," ","M","e","t","a","b","o","l","i","c"," ","P","a","n","e","l"," ","(","1","4",")">>
  /\ probe.out[2].panel_name = <<"C","o","m","p","."," ","M","e","t","a","b","o","l","i","c"," ","P","a","n","e","l"," ","(","1","4",")">>
  /\ infer_panel_from_test_name(<<"W","B","C">>, probe.arg[2]) = <<"C","B","C"," ","W","i","t","h"," ","D","i","f","f","e","r","e","n","t","i","a","l">>

(***************************************************************************)
(* Claims on the pages of a document                                       *)
(***************************************************************************)

\* the header row of the table qualifies it as a results table
QualifyingTable(table) == Len(table) >= 2 /\ is_test_results_table(table[HeaderRowOf(table)])

RECURSIVE RowsWalk(_, _, _, _)
\* the walk of the rows of a qualifying table from row i on, entered with
\* the context: the panels of its records and the context it leaves
RowsWalk(table, i, ordered_panels, context) ==
  IF i > Len(table) THEN [tags |-> <<>>, context |-> context]
  ELSE IF match_row_to_ordered_panel(table[i], ordered_panels) # None
  THEN RowsWalk(table, i + 1, ordered_panels,
                match_row_to_ordered_panel(table[i], ordered_panels))
  ELSE IF process_table_row(table[i], table[HeaderRowOf(table)]) = <<>>
  THEN RowsWalk(table, i + 1, ordered_panels, context)
  ELSE LET tag == IF context # None THEN context
                  ELSE infer_panel_from_test_name(
                         process_table_row(table[i], table[HeaderRowOf(table)])[1].name,
                         ordered_panels)
           rest == RowsWalk(table, i + 1, ordered_panels, tag)
       IN [tags |-> <<tag>> \o rest.tags, context |-> rest.context]

RECURSIVE PageWalk(_, _, _, _)
\* the panels of the records of the tables of a page from table k on, the
\* context of one table being handed to the next
PageWalk(tables, k, ordered_panels, context) ==
  IF k > Len(tables) THEN <<>>
  ELSE IF ~QualifyingTable(tables[k])
  THEN PageWalk(tables, k + 1, ordered_panels, context)
  ELSE LET walk == RowsWalk(tables[k], HeaderRowOf(tables[k]) + 1, ordered_panels, context)
       IN walk.tags \o PageWalk(tables, k + 1, ordered_panels, walk.context)

\* the panel_name of each record
PanelNames(tests) == [i \in DOMAIN tests |-> tests[i].panel_name]

RECURSIVE PagesWalk(_, _, _)
\* the panels of the records of the pages from page i on: a page with
\* tables by PageWalk, the context empty at its top
PagesWalk(pages, i, ordered_panels) ==
  IF i > Len(pages) THEN <<>>
  ELSE (IF pages[i].tables # <<>>
        THEN PageWalk(pages[i].tables, 1, ordered_panels, None)
        ELSE PanelNames(extract_tests_from_text(pages[i].text, ordered_panels)))
       \o PagesWalk(pages, i + 1, ordered_panels)

\* C26: the current-panel context has page scope: a context established by
\* a panel-header row or by adopted inference while one table of a page is
\* walked is still the context for the rows of the later tables of that
\* page, so an unpaneled row of a second table receives the panel
\* established in the first.
C26_ContextHasPageScope ==
  Returned("parse_with_pdfplumber") /\ probe.out # <<>> =>
    PanelNames(probe.out[1].tests)
      = PagesWalk(probe.arg.pages, 1, probe.out[1].ordered_panels)

\* the elements of the sequence
ElementsOf(xs) == {xs[i] : i \in DOMAIN xs}

\* a line the second pass of the ordered-panel extractor takes
SecondPassLine(line) ==
  Contains(line, <<";">>) /\ Contains(line, <<"(">>) /\ Contains(line, <<")">>)

\* the panel names the lines of the text give to the second pass
SecondPassPanels(text) ==
  UNION {ElementsOf(extract_panels_from_ordered_line(Split(text, "\n")[l])) :
           l \in {k \in DOMAIN Split(text, "\n") : SecondPassLine(Split(text, "\n")[k])}}

\* C27: the second pass of the ordered-panel extractor covers the entire
\* document: every line on any page that holds ';' with '(' and ')' gives
\* its segment-extracted panel names to ordered_panels, so a panel listed
\* only on a page after the first is recovered; the final list holds each
\* panel once.
C27_SecondPassOverDocument ==
  Returned("parse_with_pdfplumber") /\ probe.out # <<>> =>
    /\ \A i \in DOMAIN probe.arg.pages :
         SecondPassPanels(probe.arg.pages[i].text) \subseteq ElementsOf(probe.out[1].ordered_panels)
    /\ \A i, j \in DOMAIN probe.out[1].ordered_panels :
         probe.out[1].ordered_panels[i] = probe.out[1].ordered_panels[j] => i = j

RECURSIVE TestsByPage(_, _, _)
\* the tests of the pages from page i on: the tables of a page with a
\* qualifying table, else the lines of the flowed text of the page
TestsByPage(pages, i, ordered_panels) ==
  IF i > Len(pages) THEN <<>>
  ELSE (IF \E k \in DOMAIN pages[i].tables : QualifyingTable(pages[i].tables[k])
        THEN TablesTests(pages[i].tables, 1, ordered_panels)
        ELSE extract_tests_from_text(pages[i].text, ordered_panels))
       \o TestsByPage(pages, i + 1, ordered_panels)

\* C28: within the table-strategy pass the Text Strategy is applied to
\* every page on which no qualifying results table exists, a page whose
\* only tables are rejected ones included; the test lines of the flowed
\* text of such a page yield TestRecords.
C28_TextWhereNoQualifyingTable ==
  Returned("parse_with_pdfplumber") /\ probe.out # <<>> =>
    probe.out[1].tests = TestsByPage(probe.arg.pages, 1, probe.out[1].ordered_panels)

(***************************************************************************)
(* Claims on the collection date                                           *)
(***************************************************************************)

\* the dates, as ISO texts, of the parseable matches of the date pattern k
\* at any position of the text
DatesOfPattern(k, text) ==
  {isoformat(DateParse(Group(text, FirstOf(M(date_patterns[k], text, i, NoCaps, FALSE), i), 1),
                       today)) :
     i \in {j \in 1..Len(text) :
              /\ M(date_patterns[k], text, j, NoCaps, FALSE) # <<>>
              /\ DateParse(Group(text, FirstOf(M(date_patterns[k], text, j, NoCaps, FALSE), j), 1),
                           today) # NoDate}}

\* C29: the collection-date extractor tries its date patterns in the listed
\* order (M/D/YYYY, YYYY-MM-DD, 'Month D, YYYY', D-Mon-YYYY) and returns,
\* as an ISO text, the parseable match of the earliest-listed pattern that
\* matches anywhere in the flowed text, wherever the date stands (the very
\* beginning included); a later pattern is consulted only when every
\* earlier one has no parseable match, and null is returned only when no
\* pattern matches anywhere.
C29_EarliestPatternAnywhere ==
  Returned("extract_date_from_text") =>
    IF \A k \in DOMAIN date_patterns : DatesOfPattern(k, probe.arg) = {}
    THEN probe.out = None
    ELSE probe.out \in
           DatesOfPattern(CHOOSE k \in DOMAIN date_patterns :
                            /\ DatesOfPattern(k, probe.arg) # {}
                            /\ \A h \in 1..(k - 1) : DatesOfPattern(h, probe.arg) = {},
                          probe.arg)
(***************************************************************************)
(* The import log lifecycle                                                *)
(***************************************************************************)

\* the position in the parsed tests of the import that a row of lab_results
\* persists
TestOf(database, r) ==
  IF r.test_index < 0
  THEN Len(LogOf(database, r.pdf_import_id)[1].parsed_data.tests) + r.test_index
  ELSE r.test_index

\* the rows of lab_results that persist the parsed test of the import
RowsOfTest(database, import_id, test) ==
  SelectSeq(ResultsOf(database, import_id), LAMBDA r : TestOf(database, r) = test)

\* each parsed test of an import is in at most one row of lab_results
PersistedOnce(database) ==
  \A i \in DOMAIN database.logs :
    \A test \in 0..(database.logs[i].total_tests_found - 1) :
      Len(RowsOfTest(database, database.logs[i].id, test)) <= 1

\* C30: over any sequence of upload, confirm, cancel and delete calls each
\* parsed test of an import is persisted as at most one lab result: a
\* confirm of an import that is "completed" adds no row of lab_results, and
\* the status of an import goes from "pending" to "completed" only
C30_EachTestPersistedOnce ==
  [][/\ PersistedOnce(db')
     /\ \A i \in DOMAIN db.logs :
          /\ db.logs[i].status = "completed"
               => Len(ResultsOf(db', db.logs[i].id)) <= Len(ResultsOf(db, db.logs[i].id))
          /\ \A j \in DOMAIN db'.logs :
               (db'.logs[j].id = db.logs[i].id /\ db'.logs[j].file_hash = db.logs[i].file_hash)
                 => (db.logs[i].status = "completed" => db'.logs[j].status = "completed")]_vars

=============================================================================
